---- MODULE Spec2Model ----
(***************************************************************************)
(* A model of the miniclaw control plane: the session manager, the agent   *)
(* runner's bounded tool loop, the gateway's message handling, the         *)
(* subagent registry and the announce debounce/collect pipeline.           *)
(*                                                                         *)
(* JavaScript runs one task at a time and switches tasks only at an await, *)
(* so every action below is one synchronous segment of a handler: from the *)
(* point where it is resumed to its next await (or its return).            *)
(***************************************************************************)
EXTENDS Naturals, Integers, Sequences, FiniteSets, TLC

VARIABLES
  sessions,     \* SessionManager index: sessionId -> SessionEntry
  transcripts,  \* the transcript files, by sessionId (ids are never reused)
  runners,      \* the AgentRunner objects constructed so far
  frames,       \* the handler invocations started so far, each with its locals
  agents,       \* Gateway.agents: runnerKey -> runner id (0: none)
  outbox,       \* channels.send calls, in order
  subRuns,      \* SubagentRegistry.runs: runId -> record
  sweeperOn,    \* SubagentRegistry.sweeper # null
  sweepAt,      \* the time of the sweeper's next interval tick
  queues,       \* ANNOUNCE_QUEUES: requesterSessionKey -> queue
  triggers,     \* GatewayRef.triggerAgent calls made by drainQueue, in order
  now,          \* Date.now(), in ms
  replies,      \* what the calls of Gateway.triggerAgent have returned, in order
  cron,         \* CronService and CronStore: jobs, schedulers, the store file
  bindings,     \* the bindings file of the BindingManager
  route,        \* the latest result of BindingManager.resolveRoute
  agentStore,   \* the agents file of the AgentManager
  stream,       \* the locals of one call of LLMClient.parseOpenAIStream
  budget        \* what the environment may still do within the model's bounds

vars == <<sessions, transcripts, runners, frames, agents, outbox,
          subRuns, sweeperOn, sweepAt, queues, triggers, now,
          replies, cron, bindings, route, agentStore, stream, budget>>

(***************************************************************************)
(* Bounds of the model.                                                    *)
(***************************************************************************)
RunnerRuns == 1      \* SpecRunner: calls of run made by the environment
RunnerInjects == 2   \* SpecRunner: inject() calls
RunnerCalls == 2     \* SpecRunner: model calls answered
RunnerVaried == 2    \* SpecRunner: answers other than text, nothing, or one bash call
RunnerThrows == 1    \* SpecRunner: rejections of llm.chat or tool.execute
LoopInjects == 1     \* SpecLoop: inject() calls
LoopCalls == 10      \* SpecLoop: model calls answered
LoopVaried == 1      \* SpecLoop: answers with text beside a tool call, or blank text
AnnounceSpawns == 2  \* SpecAnnounce: subagent_spawn calls
AnnounceCalls == 2   \* SpecAnnounce: model calls answered
AnnounceThrows == 1  \* SpecAnnounce: rejections of llm.chat
AnnounceTicks == 2   \* SpecAnnounce: steps of TickMs (time also moves to deadlines)
SubSpawns == 1       \* SpecSubagent: subagent_spawn calls
SubCalls == 1        \* SpecSubagent: model calls answered
SubThrows == 1       \* SpecSubagent: rejections of llm.chat
SubTicks == 2        \* SpecSubagent: steps of TickMs (time also moves to deadlines)
GatewayMsgs == 2     \* Spec: channel messages received
GatewayTrigs == 1    \* Spec: triggerAgent calls
GatewayCalls == 2    \* Spec: model calls answered
GatewayThrows == 1   \* Spec: rejections of llm.chat or tool.execute
ConcurrentMsgs == 3   \* SpecConcurrent: channel messages received
ConcurrentCalls == 1  \* SpecConcurrent: model calls answered
OpsMsgs == 1          \* SpecOps: channel messages received
OpsCrons == 2         \* SpecOps: cron fires
OpsPosts == 1         \* SpecOps: POST /api/sessions requests
OpsDeletes == 1       \* SpecOps: DELETE /api/sessions/:id requests
OpsCalls == 2         \* SpecOps: model calls answered
OpsVaried == 1        \* SpecOps: answers that call telegram_send
CronMsgs == 1         \* SpecCron: channel messages received
CronFires == 2        \* SpecCron: cron fires
CronCalls == 1        \* SpecCron: model calls answered
ExitRuns == 2         \* SpecExit: calls of run made by the environment
ExitCalls == 10       \* SpecExit: model calls answered
ExitThrows == 1       \* SpecExit: rejections of llm.chat or tool.execute
ExitAborts == 1       \* SpecExit: abort() calls
TurnMsgs == 3         \* SpecTurn: channel messages received
TurnCalls == 3        \* SpecTurn: model calls answered
TurnThrows == 1       \* SpecTurn: rejections of llm.chat
AbortMsgs == 2        \* SpecAbort: channel messages received
AbortCalls == 2       \* SpecAbort: model calls answered
AbortAborts == 1      \* SpecAbort: abort() calls
SchedOps == 2         \* SpecSched: cron operations called
SchedFires == 1       \* SpecSched: ticks of the schedulers
FireFires == 2        \* SpecFire: ticks of the schedulers
FireCalls == 1        \* SpecFire: model calls answered
FireThrows == 1       \* SpecFire: rejections of llm.chat
RouteBinds == 2       \* SpecRoute: bindings created
RouteResolves == 1    \* SpecRoute: routes resolved
AgentEdits == 3       \* SpecAgents: calls of the agent API
StreamDeltas == 4     \* SpecStream: tool-call deltas read
SteerMsgs == 1        \* SpecSteer: messages received
SteerTrigs == 1       \* SpecSteer: calls of triggerAgent
SteerCalls == 1       \* SpecSteer: model calls answered
SteerThrows == 1      \* SpecSteer: rejections of llm.chat
ResumeMsgs == 3       \* SpecResume: messages received
ResumeCalls == 1      \* SpecResume: model calls answered
DrainInjects == 2     \* SpecDrain: messages injected
DrainCalls == 10      \* SpecDrain: model calls answered
EvictMsgs == 3        \* SpecEvict: channel messages received
EvictDeletes == 1     \* SpecEvict: DELETE /api/sessions/:id requests
EvictCalls == 3       \* SpecEvict: model calls answered
ChunkReads == 2       \* SpecChunks: reads that deliver bytes of the stream
LiveMsgs == 2         \* SpecLive: channel messages received
LiveCalls == 11       \* SpecLive: model calls answered
InterOps == 2         \* SpecInterleave: cron operations called
StartMs == 1000000   \* Date.now() when the model starts

(***************************************************************************)
(* Program constants.                                                      *)
(***************************************************************************)
maxIterations == 10
MaxEmptyRetries == 2

InterruptPrefix == "[INTERRUPT] New message from user: "
CronPrefix == "[SCHEDULED TASK] Execute the following scheduled task and send the result to the user:\n\n"
AnnouncePrefix == "[SUBAGENT RESULT] "
SystemPrompt == "system-prompt"

Min(S) == CHOOSE x \in S : \A y \in S : x <= y

(***************************************************************************)
(* Transcript entries and LLM messages.  tool_calls = <<>> and             *)
(* tool_call_id = 0 stand for an absent field.                             *)
(***************************************************************************)
Entry(role, content, calls, callId) ==
  [role |-> role, content |-> content, tool_calls |-> calls, tool_call_id |-> callId]

(***************************************************************************)
(* The world: the program state a synchronous segment reads and writes.    *)
(* The operators below are the code's statements as functions of it.       *)
(***************************************************************************)
World ==
  [sessions |-> sessions, transcripts |-> transcripts,
   runners |-> runners, frames |-> frames, agents |-> agents, outbox |-> outbox,
   subRuns |-> subRuns, sweeperOn |-> sweeperOn, sweepAt |-> sweepAt,
   queues |-> queues, triggers |-> triggers, now |-> now,
   replies |-> replies, cron |-> cron, bindings |-> bindings, route |-> route,
   agentStore |-> agentStore, stream |-> stream]

Commit(w) ==
  /\ sessions' = w.sessions
  /\ transcripts' = w.transcripts
  /\ runners' = w.runners
  /\ frames' = w.frames
  /\ agents' = w.agents
  /\ outbox' = w.outbox
  /\ subRuns' = w.subRuns
  /\ sweeperOn' = w.sweeperOn
  /\ sweepAt' = w.sweepAt
  /\ queues' = w.queues
  /\ triggers' = w.triggers
  /\ now' = w.now
  /\ replies' = w.replies
  /\ cron' = w.cron
  /\ bindings' = w.bindings
  /\ route' = w.route
  /\ agentStore' = w.agentStore
  /\ stream' = w.stream

(***************************************************************************)
(* SessionManager.                                                         *)
(***************************************************************************)
\* randomUUID(): the first id never used
NextSid(w) == Len(w.transcripts) + 1

createSession(w, sessionKey, channel) ==
  [w EXCEPT !.sessions = @ @@ (NextSid(w) :>
                [sessionKey |-> sessionKey, channel |-> channel, messageCount |-> 0]),
            !.transcripts = Append(@, <<>>)]

\* the part of a session key up to its colon, for the keys of the model
KeyPrefix(sessionKey) ==
  CASE sessionKey \in {"telegram:7"} -> "telegram:"
    [] sessionKey \in {"web:1"} -> "web:"
    [] sessionKey \in {"cron:1", "cron:2"} -> "cron:"
    [] OTHER -> ""

inferChannel(sessionKey) ==
  CASE KeyPrefix(sessionKey) = "telegram:" -> "telegram"
    [] KeyPrefix(sessionKey) = "web:" -> "web"
    [] KeyPrefix(sessionKey) = "cron:" -> "cron"
    [] OTHER -> "websocket"

getSession(w, sessionId) == sessionId \in DOMAIN w.sessions

\* Object.values(...).find: the first session inserted with the key; 0 for null
findBySessionKey(w, sessionKey) ==
  LET hits == {s \in DOMAIN w.sessions : w.sessions[s].sessionKey = sessionKey}
  IN IF hits = {} THEN 0 ELSE Min(hits)

deleteSession(w, sessionId) ==
  IF sessionId \notin DOMAIN w.sessions THEN w
  ELSE [w EXCEPT !.sessions = [s \in DOMAIN w.sessions \ {sessionId} |-> w.sessions[s]],
                 !.transcripts[sessionId] = <<>>]

\* appends to the file whether or not the session is in the index
appendMessage(w, sessionId, e) ==
  LET w1 == [w EXCEPT !.transcripts[sessionId] = Append(@, e)]
  IN IF sessionId \in DOMAIN w.sessions
     THEN [w1 EXCEPT !.sessions[sessionId].messageCount = @ + 1]
     ELSE w1

toMessages(w, sessionId) == w.transcripts[sessionId]

\* a variant that does not look for an existing session
getOrCreateAlways(w, sessionKey, channel) == createSession(w, sessionKey, channel)

getOrCreate(w, sessionKey, channel) ==
  IF findBySessionKey(w, sessionKey) # 0 THEN w ELSE createSession(w, sessionKey, channel)

(***************************************************************************)
(* Tool registry.                                                          *)
(***************************************************************************)
builtinTools ==
  <<"bash", "read", "write", "cron", "web_fetch", "subagent_spawn",
    "telegram_send", "session_send", "skill">>

SUBAGENT_DENIED_TOOLS == {"subagent_spawn"}

Range(s) == {s[i] : i \in DOMAIN s}

getAllTools(isSubagent) ==
  IF isSubagent
  THEN SelectSeq(builtinTools, LAMBDA t : t \notin SUBAGENT_DENIED_TOOLS)
  ELSE builtinTools

\* called without options: the unfiltered list; "" for undefined
getToolByName(name) ==
  IF name \in Range(getAllTools(FALSE)) THEN name ELSE ""

getToolSchemas(isSubagent) == Range(getAllTools(isSubagent))

(***************************************************************************)
(* SubagentRegistry.  A record is kept in memory and written to disk by    *)
(* persist(); the model keeps the map (a restart is not modelled).         *)
(* endedAt, archiveAtMs, cleanupCompletedAt = 0 stand for an absent field. *)
(***************************************************************************)
ARCHIVE_AFTER_MINUTES == 60
SweepIntervalMs == 60000
MinuteMs == 60000

startSweeper(w) ==
  IF w.sweeperOn THEN w
  ELSE [w EXCEPT !.sweeperOn = TRUE, !.sweepAt = w.now + SweepIntervalMs]

stopSweeper(w) ==
  IF ~w.sweeperOn THEN w ELSE [w EXCEPT !.sweeperOn = FALSE, !.sweepAt = 0]

register(w, runId, childSessionKey, requesterSessionKey, task, cleanup) ==
  LET archiveMinutes == ARCHIVE_AFTER_MINUTES
      archiveAtMs == IF archiveMinutes > 0 THEN w.now + archiveMinutes * MinuteMs ELSE 0
      record == [runId |-> runId, childSessionKey |-> childSessionKey,
                 requesterSessionKey |-> requesterSessionKey, task |-> task,
                 cleanup |-> cleanup, createdAt |-> w.now, startedAt |-> w.now,
                 endedAt |-> 0, outcome |-> [status |-> "", error |-> ""],
                 archiveAtMs |-> archiveAtMs, cleanupCompletedAt |-> 0,
                 cleanupHandled |-> FALSE]
      w1 == [w EXCEPT !.subRuns = (runId :> record) @@ @]
  IN IF archiveAtMs # 0 THEN startSweeper(w1) ELSE w1

markStarted(w, runId) ==
  IF runId \notin DOMAIN w.subRuns THEN w
  ELSE [w EXCEPT !.subRuns[runId].startedAt = w.now]

markCompleted(w, runId, outcome) ==
  IF runId \notin DOMAIN w.subRuns THEN w
  ELSE [w EXCEPT !.subRuns[runId].endedAt = w.now,
                 !.subRuns[runId].outcome = outcome]

registryDelete(w, runId) ==
  [w EXCEPT !.subRuns = [x \in DOMAIN w.subRuns \ {runId} |-> w.subRuns[x]]]

finalizeCleanup(w, runId, didAnnounce) ==
  IF runId \notin DOMAIN w.subRuns THEN w
  ELSE IF w.subRuns[runId].cleanup = "delete" THEN registryDelete(w, runId)
  ELSE IF ~didAnnounce THEN [w EXCEPT !.subRuns[runId].cleanupHandled = FALSE]
  ELSE [w EXCEPT !.subRuns[runId].cleanupCompletedAt = w.now]

sweep(w) ==
  LET due == {x \in DOMAIN w.subRuns :
                w.subRuns[x].archiveAtMs # 0 /\ w.subRuns[x].archiveAtMs <= w.now}
      w1 == [w EXCEPT !.subRuns = [x \in DOMAIN w.subRuns \ due |-> w.subRuns[x]]]
  IN IF DOMAIN w1.subRuns = {} THEN stopSweeper(w1) ELSE w1

(***************************************************************************)
(* Announce pipeline.  A queue is [items, debounceTimer, armed, timerAt,   *)
(* timerChannel, draining]: debounceTimer is the handle the queue holds    *)
(* (0: null), armed says whether that timeout is still scheduled, timerAt  *)
(* and timerChannel are the timeout's deadline and the channel its closure *)
(* captured.  A message is kept as the array of lines that join('\n')      *)
(* glues together.                                                         *)
(***************************************************************************)
DEBOUNCE_MS == 2000

getOrCreateQueue(w, sessionKey) ==
  IF sessionKey \in DOMAIN w.queues THEN w
  ELSE [w EXCEPT !.queues = @ @@ (sessionKey :>
          [items |-> <<>>, debounceTimer |-> 0, armed |-> FALSE, timerAt |-> 0,
           timerChannel |-> "", draining |-> FALSE])]

LastOf(s) == s[Len(s)]

getLastAssistantMessage(w, sessionKey) ==
  LET sid == findBySessionKey(w, sessionKey)
      assistantMessages ==
        IF sid = 0 THEN <<>>
        ELSE SelectSeq(w.transcripts[sid], LAMBDA m : m.role = "assistant")
  IN IF assistantMessages = <<>> THEN "" ELSE LastOf(assistantMessages).content

formatDuration(ms) ==
  LET seconds == ms \div 1000
      minutes == seconds \div 60
      hours == minutes \div 60
  IN IF seconds < 60 THEN ToString(seconds) \o "s"
     ELSE IF minutes < 60 THEN ToString(minutes) \o "m" \o ToString(seconds % 60) \o "s"
     ELSE ToString(hours) \o "h" \o ToString(minutes % 60) \o "m"

Duration(params) ==
  IF params.endedAt # 0 /\ params.startedAt # 0
  THEN formatDuration(params.endedAt - params.startedAt)
  ELSE "unknown"

Or(a, b) == IF a # "" THEN a ELSE b

TaskLabel(params) == Or(params.label, params.task)

buildTriggerMessage(params, findings) ==
  LET statusLabel ==
        IF params.outcome.status = "ok" THEN "completed successfully"
        ELSE IF params.outcome.status = "error"
             THEN "failed: " \o Or(params.outcome.error, "unknown error")
             ELSE "finished with unknown status"
  IN << "A background task \"" \o TaskLabel(params) \o "\" just " \o statusLabel \o ".",
        "",
        "Findings:",
        Or(findings, "(no output)"),
        "",
        "Duration: " \o Duration(params),
        "",
        "Summarize this naturally for the user. Keep it brief (1-2 sentences).",
        "Flow it into the conversation naturally.",
        "Do not mention technical details like duration or that this was a background task.",
        "You can respond with NO_REPLY if no announcement is needed." >>

CollectedHeader(n) ==
  << "[" \o ToString(n) \o " background tasks completed]",
     "",
     "Below are the results from multiple parallel tasks. Summarize them together for the user.",
     "Keep it concise and natural. Do not list them mechanically.",
     "" >>

CollectedBlock(i, item) ==
  LET statusLabel == IF item.params.outcome.status = "ok" THEN "completed" ELSE "failed"
  IN << "--- Task " \o ToString(i) \o ": \"" \o TaskLabel(item.params)
          \o "\" (" \o statusLabel \o ") ---",
        Or(item.findings, "(no output)"),
        "" >>

\* a variant that lists the tasks last to first
RECURSIVE CollectedBlocksReversed(_, _)
CollectedBlocksReversed(items, i) ==
  IF i > Len(items) THEN <<>>
  ELSE CollectedBlock(i, items[Len(items) - i + 1]) \o CollectedBlocksReversed(items, i + 1)

RECURSIVE CollectedBlocks(_, _)
CollectedBlocks(items, i) ==
  IF i > Len(items) THEN <<>>
  ELSE CollectedBlock(i, items[i]) \o CollectedBlocks(items, i + 1)

buildCollectedTriggerMessage(items) ==
  CollectedHeader(Len(items)) \o CollectedBlocks(items, 1)
    \o << "Summarize all findings together in a natural, conversational way.",
          "If user asked for a comparison table, create one." >>

enqueueAnnounce(w, params, findings) ==
  LET k == params.requesterSessionKey
      w1 == getOrCreateQueue(w, k)
  IN [w1 EXCEPT !.queues[k].items =
                   Append(@, [params |-> params, findings |-> findings, enqueuedAt |-> w.now]),
                !.queues[k].debounceTimer = w.now + DEBOUNCE_MS,
                !.queues[k].armed = TRUE,
                !.queues[k].timerAt = w.now + DEBOUNCE_MS,
                !.queues[k].timerChannel = params.requesterChannel]

runAnnounceFlow(w, params) ==
  enqueueAnnounce(w, params, getLastAssistantMessage(w, params.childSessionKey))

\* gatewayRef.triggerAgent(sessionKey, channel, message) is called and awaited
CallTrigger(w, sessionKey, channel, message, items) ==
  [w EXCEPT !.triggers = Append(@,
     [sessionKey |-> sessionKey, channel |-> channel, message |-> message,
      runIds |-> [i \in DOMAIN items |-> items[i].params.childRunId],
      at |-> w.now, status |-> "pending"])]

\* a variant without the reentrancy guard
drainQueueUnguarded(w, sessionKey, channel) ==
  IF sessionKey \notin DOMAIN w.queues THEN w
  ELSE LET queue == w.queues[sessionKey] IN
    IF queue.items = <<>> THEN w
    ELSE LET w1 == [w EXCEPT !.queues[sessionKey].draining = TRUE,
                             !.queues[sessionKey].debounceTimer = 0]
         IN IF Len(queue.items) = 1
            THEN CallTrigger([w1 EXCEPT !.queues[sessionKey].items = Tail(@)],
                             sessionKey, channel,
                             buildTriggerMessage(Head(queue.items).params,
                                                 Head(queue.items).findings),
                             <<Head(queue.items)>>)
            ELSE CallTrigger([w1 EXCEPT !.queues[sessionKey].items = <<>>],
                             sessionKey, channel,
                             buildCollectedTriggerMessage(queue.items), queue.items)

\* a variant that takes the items off the queue only after the call
drainQueueKeeping(w, sessionKey, channel) ==
  IF sessionKey \notin DOMAIN w.queues THEN w
  ELSE LET queue == w.queues[sessionKey] IN
    IF queue.draining \/ queue.items = <<>> THEN w
    ELSE LET w1 == [w EXCEPT !.queues[sessionKey].draining = TRUE,
                             !.queues[sessionKey].debounceTimer = 0]
         IN IF Len(queue.items) = 1
            THEN CallTrigger(w1, sessionKey, channel,
                             buildTriggerMessage(Head(queue.items).params,
                                                 Head(queue.items).findings),
                             <<Head(queue.items)>>)
            ELSE CallTrigger(w1, sessionKey, channel,
                             buildCollectedTriggerMessage(queue.items), queue.items)

\* drainQueue up to its await
drainQueue(w, sessionKey, channel) ==
  IF sessionKey \notin DOMAIN w.queues THEN w
  ELSE LET queue == w.queues[sessionKey] IN
    IF queue.draining \/ queue.items = <<>> THEN w
    ELSE LET w1 == [w EXCEPT !.queues[sessionKey].draining = TRUE,
                             !.queues[sessionKey].debounceTimer = 0]
         IN IF Len(queue.items) = 1
            THEN CallTrigger([w1 EXCEPT !.queues[sessionKey].items = Tail(@)],
                             sessionKey, channel,
                             buildTriggerMessage(Head(queue.items).params,
                                                 Head(queue.items).findings),
                             <<Head(queue.items)>>)
            ELSE CallTrigger([w1 EXCEPT !.queues[sessionKey].items = <<>>],
                             sessionKey, channel,
                             buildCollectedTriggerMessage(queue.items), queue.items)

\* drainQueue's finally block
drainFinally(w, sessionKey) ==
  LET w1 == [w EXCEPT !.queues[sessionKey].draining = FALSE]
  IN IF w1.queues[sessionKey].items = <<>>
     THEN [w1 EXCEPT !.queues = [k \in DOMAIN w1.queues \ {sessionKey} |-> w1.queues[k]]]
     ELSE w1

(***************************************************************************)
(* AgentRunner.  A runner is [sessionId, messages, injectedMessages,       *)
(* isRunning, isSubagent, toolContext]; a frame holds the locals of one    *)
(* call of run and of the handler that made it:                            *)
(*   kind      who called run: "direct", "message", "trigger", "subagent"  *)
(*   pc        where the invocation waits: "loadSkills", "typing", "chat", *)
(*             "tool", or "returned" / "threw" once run has ended          *)
(*   phase     "main" (the bounded loop) or "drain" (the final check)      *)
(*   tools     the tool calls of the current answer not yet completed      *)
(*   call      the conversation handed to the latest model call            *)
(*   calls     how many model calls this run has made                      *)
(*   completed the arguments run passed to onComplete                      *)
(*   msgSessionId  the sessionId of the message being processed (0: none)  *)
(*   endedAt   when run ended (0: not yet); endOrder numbers the subagent  *)
(*             runs in the order in which they ended                       *)
(*   lastText  the last non-empty text the model produced in this run, and *)
(*             onlyTools, whether every answer so far held a tool call     *)
(*   steer     what inject() added while a tool call of this run was       *)
(*             executing, each with whether the queue was empty before,    *)
(*             and steerTools, the ids of those tool calls; seen and       *)
(*             seenTools are their values at the latest model call         *)
(*   aborted   whether the AbortController this run created has aborted,   *)
(*             and signal, the controller whose signal the latest model    *)
(*             call was given (a controller goes by the number of the run  *)
(*             that created it; 0: none)                                   *)
(*   sent      the texts the gateway passed to channels.send for this turn *)
(***************************************************************************)
NoContext == [sessionKey |-> "", channel |-> ""]

NewRunner(isSubagent) ==
  [sessionId |-> 0, messages |-> <<>>, injectedMessages |-> <<>>,
   isRunning |-> FALSE, isSubagent |-> isSubagent, toolContext |-> NoContext,
   abortController |-> 0]

NewFrame(kind, runner, key, channel, text, source) ==
  [kind |-> kind, runner |-> runner, key |-> key, channel |-> channel,
   text |-> text, source |-> source, pc |-> "new", phase |-> "main",
   iterations |-> 0, emptyRetries |-> 0, finalResponse |-> "",
   tools |-> <<>>, schemas |-> {}, call |-> <<>>, calls |-> 0,
   result |-> "", error |-> "", completed |-> <<>>,
   runId |-> 0, parent |-> 0, requester |-> NoContext, cleanup |-> "",
   msgSessionId |-> 0, startedAt |-> 0, endedAt |-> 0, endOrder |-> 0,
   lastText |-> "", onlyTools |-> TRUE,
   steer |-> <<>>, steerTools |-> {}, seen |-> <<>>, seenTools |-> {},
   aborted |-> FALSE, signal |-> 0, sent |-> <<>>]

RunnerOf(w, f) == w.frames[f].runner

bindSession(w, r, sessionId) ==
  LET history == toMessages(w, sessionId)
      w1 == [w EXCEPT !.runners[r].sessionId = sessionId]
  IN IF Len(history) > 0 THEN [w1 EXCEPT !.runners[r].messages = history] ELSE w1

persistMessage(w, r, e) ==
  IF w.runners[r].sessionId = 0 THEN w
  ELSE appendMessage(w, w.runners[r].sessionId, e)

inject(w, r, message) ==
  [w EXCEPT !.runners[r].injectedMessages = Append(@, message)]

isActive(w, r) == w.runners[r].isRunning

\* this.abortController?.abort()
abort(w, r) ==
  IF w.runners[r].abortController = 0 THEN w
  ELSE [w EXCEPT !.frames[w.runners[r].abortController].aborted = TRUE]

\* the signal the model call of a run holds has aborted
SignalAborted(w, f) ==
  w.frames[f].signal # 0 /\ w.frames[w.frames[f].signal].aborted

\* this.messages.push(e)
Push(w, r, e) == [w EXCEPT !.runners[r].messages = Append(@, e)]

\* this.messages.push(e); this.persistMessage(e)
PushPersist(w, r, e) == persistMessage(Push(w, r, e), r, e)

\* a variant that leaves the prefix out
InterruptEntryBare(injected) == Entry("user", injected, <<>>, 0)

InterruptEntry(injected) == Entry("user", InterruptPrefix \o injected, <<>>, 0)

\* await this.llm.chat(this.messages, toolSchemas, ...): the frame waits for
\* the answer; call is the conversation handed over, calls counts the calls
\* of this run, and seen, seenTools take over what was steered in during the
\* tool calls that preceded
CallLLM(w, f) ==
  [w EXCEPT !.frames[f].pc = "chat",
            !.frames[f].signal = w.runners[RunnerOf(w, f)].abortController,
            !.frames[f].call = w.runners[RunnerOf(w, f)].messages,
            !.frames[f].calls = @ + 1,
            !.frames[f].seen = w.frames[f].steer,
            !.frames[f].seenTools = w.frames[f].steerTools,
            !.frames[f].steer = <<>>,
            !.frames[f].steerTools = {}]

Trim(s) == IF s \in {"", " ", "\n"} THEN "" ELSE s

\* channels.send(channel, sessionKey, {text})
channelSend(w, channel, sessionKey, text) ==
  [w EXCEPT !.outbox = Append(@, [channel |-> channel, sessionKey |-> sessionKey,
                                  text |-> text])]

(***************************************************************************)
(* What the caller of run does once run has ended.                         *)
(***************************************************************************)
AnnounceParams(w, f, outcome) ==
  LET fr == w.frames[f]
  IN [childSessionKey |-> fr.key, childRunId |-> fr.runId,
      requesterSessionKey |-> fr.requester.sessionKey,
      requesterChannel |-> fr.requester.channel,
      task |-> fr.text, label |-> "", startedAt |-> fr.startedAt,
      endedAt |-> w.now, outcome |-> outcome, cleanup |-> fr.cleanup]

\* runSubagentInBackground from the end of runner.run: the try block's rest
\* (or the catch block), then the finally block
subagentEnded(w, f, outcome) ==
  LET ended == {c \in DOMAIN w.frames : w.frames[c].endOrder # 0}
      w0 == [w EXCEPT !.frames[f].endOrder = Cardinality(ended) + 1]
      w1 == markCompleted(w0, w.frames[f].runId, outcome)
      w2 == runAnnounceFlow(w1, AnnounceParams(w1, f, outcome))
  IN finalizeCleanup(w2, w.frames[f].runId, TRUE)

\* Gateway.processMessage: the onComplete callback
\* this.channels.send(msg.channel, msg.sessionKey, {text}) in processMessage
gatewaySend(w, f, text) ==
  channelSend([w EXCEPT !.frames[f].sent = Append(@, text)],
              w.frames[f].channel, w.frames[f].key, text)

\* a variant that passes every final text on
gatewayOnCompleteAll(w, f, text) == gatewaySend(w, f, text)

\* Gateway.processMessage: the onComplete callback
gatewayOnComplete(w, f, text) ==
  IF Trim(text) = "NO_REPLY" \/ Trim(text) = "(done)" THEN w
  ELSE gatewaySend(w, f, text)

\* a variant that only logs the error
gatewayCatchSilent(w, f, message) == w

\* Gateway.processMessage: the catch block
gatewayCatch(w, f, message) == gatewaySend(w, f, "Error: " \o message)

IsGatewayKind(kind) == kind \in {"message", "trigger"}

\* callbacks?.onComplete?.(finalResponse)
onComplete(w, f, text) ==
  LET w1 == [w EXCEPT !.frames[f].completed = Append(@, text)]
  IN IF IsGatewayKind(w.frames[f].kind) THEN gatewayOnComplete(w1, f, text) ELSE w1

\* triggerAgent after `await this.processMessage(...)`: return 'invoked'
triggerInvoked(w, f) ==
  [w EXCEPT !.replies = [i \in DOMAIN @ |->
                           IF @[i].frame = f THEN [@[i] EXCEPT !.value = "invoked"]
                           ELSE @[i]]]

\* run returns value: the finally block, then the caller
ReturnRun(w, f, value) ==
  LET w1 == [w EXCEPT !.runners[RunnerOf(w, f)].isRunning = FALSE,
                      !.frames[f].pc = "returned",
                      !.frames[f].endedAt = w.now,
                      !.frames[f].result = value]
  IN IF w.frames[f].kind = "subagent"
     THEN subagentEnded(w1, f, [status |-> "ok", error |-> ""])
     ELSE IF w.frames[f].kind = "trigger" THEN triggerInvoked(w1, f)
     ELSE w1

\* a variant without the finally block
ThrowRunNoFinally(w, f, message) ==
  LET w1 == [w EXCEPT !.frames[f].pc = "threw",
                      !.frames[f].endedAt = w.now,
                      !.frames[f].error = message]
  IN IF w.frames[f].kind = "subagent"
     THEN subagentEnded(w1, f, [status |-> "error", error |-> message])
     ELSE IF IsGatewayKind(w.frames[f].kind) THEN gatewayCatch(w1, f, message)
     ELSE w1

\* run throws (not an AbortError): the finally block, then the caller
ThrowRun(w, f, message) ==
  LET w1 == [w EXCEPT !.runners[RunnerOf(w, f)].isRunning = FALSE,
                      !.frames[f].pc = "threw",
                      !.frames[f].endedAt = w.now,
                      !.frames[f].error = message]
  IN IF w.frames[f].kind = "subagent"
     THEN subagentEnded(w1, f, [status |-> "error", error |-> message])
     ELSE IF w.frames[f].kind = "trigger"
          THEN triggerInvoked(gatewayCatch(w1, f, message), f)
     ELSE IF IsGatewayKind(w.frames[f].kind) THEN gatewayCatch(w1, f, message)
     ELSE w1

\* a variant whose catch block rethrows the AbortError
AbortRunRethrown(w, f) == ThrowRun(w, f, "This operation was aborted")

\* the model call rejects with an AbortError: the catch block returns
\* "(aborted)"
AbortRun(w, f) == ReturnRun(w, f, "(aborted)")

(***************************************************************************)
(* AgentRunner.run, segment by segment.                                    *)
(***************************************************************************)
\* after both loops: the fallback, onComplete, return
Finish(w, f) ==
  LET final == IF Trim(w.frames[f].finalResponse) = "" THEN "(done)"
               ELSE w.frames[f].finalResponse
      w1 == [w EXCEPT !.frames[f].finalResponse = final]
  IN ReturnRun(onComplete(w1, f, final), f, final)

\* the head of the second loop ("Final check"), up to its model call
AfterLoop(w, f) ==
  LET r == RunnerOf(w, f) IN
  IF w.runners[r].injectedMessages # <<>> /\ w.frames[f].iterations < maxIterations
  THEN LET injected == Head(w.runners[r].injectedMessages)
           w1 == [w EXCEPT !.frames[f].iterations = @ + 1,
                           !.frames[f].phase = "drain",
                           !.runners[r].injectedMessages = Tail(@)]
       IN CallLLM(PushPersist(w1, r, InterruptEntry(injected)), f)
  ELSE Finish(w, f)

\* a variant whose main loop does not test the iteration counter
LoopHeadUnbounded(w, f) ==
  LET r == RunnerOf(w, f)
      w1 == [w EXCEPT !.frames[f].iterations = @ + 1]
      w2 == IF w1.runners[r].injectedMessages # <<>>
            THEN Push([w1 EXCEPT !.runners[r].injectedMessages = Tail(@)], r,
                      InterruptEntry(Head(w1.runners[r].injectedMessages)))
            ELSE w1
  IN CallLLM(w2, f)

\* a variant that takes the newest injected message
LoopHeadNewest(w, f) ==
  LET r == RunnerOf(w, f) IN
  IF w.frames[f].iterations < maxIterations
  THEN LET w1 == [w EXCEPT !.frames[f].iterations = @ + 1]
           q == w1.runners[r].injectedMessages
           w2 == IF q # <<>>
                 THEN Push([w1 EXCEPT !.runners[r].injectedMessages =
                                         SubSeq(q, 1, Len(q) - 1)], r,
                           InterruptEntry(q[Len(q)]))
                 ELSE w1
       IN CallLLM(w2, f)
  ELSE AfterLoop(w, f)

\* the head of the main loop, up to its model call
LoopHead(w, f) ==
  LET r == RunnerOf(w, f) IN
  IF w.frames[f].iterations < maxIterations
  THEN LET w1 == [w EXCEPT !.frames[f].iterations = @ + 1]
           w2 == IF w1.runners[r].injectedMessages # <<>>
                 THEN Push([w1 EXCEPT !.runners[r].injectedMessages = Tail(@)], r,
                           InterruptEntry(Head(w1.runners[r].injectedMessages)))
                 ELSE w1
       IN CallLLM(w2, f)
  ELSE AfterLoop(w, f)

\* "If there are pending injected messages, continue ... break"
PendingCheck(w, f) ==
  IF w.runners[RunnerOf(w, f)].injectedMessages # <<>>
  THEN LoopHead(w, f)
  ELSE AfterLoop(w, f)

\* run from its entry to the first model call
RunStart(w, f, userMessage, source) ==
  LET r == RunnerOf(w, f)
      w1 == [w EXCEPT !.runners[r].isRunning = TRUE,
                      !.runners[r].abortController = f]
      transcript == IF w1.runners[r].sessionId = 0 THEN <<>>
                    ELSE toMessages(w1, w1.runners[r].sessionId)
      have == Len(w1.runners[r].messages)
      w2 == IF Len(transcript) > have
            THEN [w1 EXCEPT !.runners[r].messages =
                               @ \o SubSeq(transcript, have + 1, Len(transcript))]
            ELSE w1
      w3 == IF w2.runners[r].messages = <<>>
            THEN PushPersist(w2, r, Entry("system", SystemPrompt, <<>>, 0))
            ELSE w2
      content == IF source = "cron" THEN CronPrefix \o userMessage
                 ELSE IF source = "subagent-announce" THEN AnnouncePrefix \o userMessage
                 ELSE userMessage
      w4 == PushPersist(w3, r, Entry("user", content, <<>>, 0))
      w5 == [w4 EXCEPT !.frames[f].finalResponse = "",
                       !.frames[f].iterations = 0,
                       !.frames[f].emptyRetries = 0,
                       !.frames[f].phase = "main",
                       !.frames[f].schemas = getToolSchemas(w.runners[r].isSubagent)]
  IN LoopHead(w5, f)

(***************************************************************************)
(* Tools.  A tool call is [id, name, cleanup]: cleanup is the input of     *)
(* subagent_spawn ("" when absent), whose task is named after the call.    *)
(* execute runs synchronously to its first await (toolBegin) and is        *)
(* resumed later (ToolReturn, SpawnResume).                                *)
(***************************************************************************)
SentText == "sent"

\* subagentSpawnTool.execute up to `await runner.loadSkills()`.  The run id
\* (randomUUID) is the child frame's index; the label is absent.
spawnBegin(w, parent, context, task, cleanup) ==
  LET runId == Len(w.frames) + 1
      childSessionKey == "subagent:" \o ToString(runId)
      requesterSessionKey == Or(context.sessionKey, "unknown")
      requesterChannel == Or(context.channel, "websocket")
      w1 == createSession(w, childSessionKey, "websocket")
      w2 == register(w1, runId, childSessionKey, requesterSessionKey, task, cleanup)
      runner == Len(w.runners) + 1
      w3 == [w2 EXCEPT !.runners = Append(@, NewRunner(TRUE))]
      child == [NewFrame("subagent", runner, childSessionKey, requesterChannel, task, "user")
                  EXCEPT !.pc = "loadSkills", !.runId = runId, !.parent = parent,
                         !.requester = [sessionKey |-> requesterSessionKey,
                                        channel |-> requesterChannel],
                         !.cleanup = cleanup]
  IN [w3 EXCEPT !.frames = Append(@, child)]

\* sessionSendTool.execute up to `await this.channels.send` in sendToSession
sendToSession(w, sessionKey, channel, text) ==
  LET sid == findBySessionKey(w, sessionKey)
      w1 == IF sid # 0 THEN appendMessage(w, sid, Entry("assistant", text, <<>>, 0)) ELSE w
  IN channelSend(w1, channel, sessionKey, text)

sessionSendBegin(w, sessionId, text) ==
  IF ~getSession(w, sessionId) THEN w
  ELSE LET session == w.sessions[sessionId]
           w1 == appendMessage(w, sessionId, Entry("assistant", text, <<>>, 0))
       IN sendToSession(w1, session.sessionKey, Or(session.channel, "websocket"), text)

toolBegin(w, f, tc) ==
  LET r == RunnerOf(w, f) IN
  \* session_send is given the session of the runner as its session_id
  CASE tc.name = "subagent_spawn" ->
         spawnBegin(w, f, w.runners[r].toolContext, "task" \o ToString(tc.id),
                    Or(tc.cleanup, "delete"))
    [] tc.name = "session_send" -> sessionSendBegin(w, w.runners[r].sessionId, SentText)
    [] OTHER -> w

\* telegramSendTool.execute from `await bot.api.sendMessage` on, the message
\* sent to the default chat: the text is appended to the chat's session
DefaultChatId == "7"

telegramSent(w, text) ==
  LET sessionKey == "telegram:" \o DefaultChatId
      w1 == getOrCreate(w, sessionKey, "telegram")
  IN appendMessage(w1, findBySessionKey(w1, sessionKey), Entry("assistant", text, <<>>, 0))

\* tool.execute from the await it was waiting at to its return
toolEnd(w, tc) ==
  IF tc.name = "telegram_send" THEN telegramSent(w, SentText) ELSE w

toolOutput(tc) ==
  CASE tc.name = "subagent_spawn" -> "accepted"
    [] tc.name = "session_send" -> "sent"
    [] tc.name = "telegram_send" -> "delivered"
    [] OTHER -> "ok"

\* "Execute tools": the for loop from the next tool call up to an await
RECURSIVE ExecTools(_, _)
ExecTools(w, f) ==
  LET fr == w.frames[f]
      r == RunnerOf(w, f)
  IN IF fr.tools = <<>>
     THEN IF fr.phase = "main" THEN LoopHead(w, f) ELSE AfterLoop(w, f)
     ELSE LET tc == Head(fr.tools) IN
          IF getToolByName(tc.name) = ""
          THEN ExecTools(PushPersist([w EXCEPT !.frames[f].tools = Tail(@)], r,
                           Entry("tool", "Error: Unknown tool " \o tc.name, <<>>, tc.id)), f)
          ELSE toolBegin([w EXCEPT !.frames[f].pc = "tool"], f, tc)

\* tool.execute has returned output: the rest of the for loop's body
OnToolReturn(w, f, output) ==
  LET tc == Head(w.frames[f].tools)
      w1 == PushPersist([w EXCEPT !.frames[f].tools = Tail(@)], RunnerOf(w, f),
                        Entry("tool", output, <<>>, tc.id))
  IN ExecTools(w1, f)

AssistantWithCalls(answer) == Entry("assistant", answer.content, answer.calls, 0)

\* a variant that accepts the first empty answer
OnChatMainNoRetry(w, f, answer) ==
  LET r == RunnerOf(w, f)
      w1 == IF answer.content # "" THEN [w EXCEPT !.frames[f].finalResponse = answer.content]
            ELSE w
  IN IF answer.calls # <<>>
     THEN ExecTools([PushPersist(w1, r, AssistantWithCalls(answer))
                       EXCEPT !.frames[f].tools = answer.calls], f)
     ELSE IF answer.content # ""
     THEN PendingCheck(PushPersist(w1, r, Entry("assistant", answer.content, <<>>, 0)), f)
     ELSE PendingCheck(w1, f)

\* the main loop's body after its model call has returned answer
OnChatMain(w, f, answer) ==
  LET r == RunnerOf(w, f)
      w1 == IF answer.content # "" THEN [w EXCEPT !.frames[f].finalResponse = answer.content]
            ELSE w
  IN IF answer.calls # <<>>
     THEN ExecTools([PushPersist(w1, r, AssistantWithCalls(answer))
                       EXCEPT !.frames[f].tools = answer.calls], f)
     ELSE IF answer.content # ""
     THEN PendingCheck(PushPersist(w1, r, Entry("assistant", answer.content, <<>>, 0)), f)
     ELSE IF w1.frames[f].emptyRetries < MaxEmptyRetries
     THEN LoopHead([w1 EXCEPT !.frames[f].emptyRetries = @ + 1], f)
     ELSE PendingCheck(w1, f)

\* the second loop's body after its model call has returned answer
OnChatDrain(w, f, answer) ==
  LET r == RunnerOf(w, f)
      w1 == IF answer.content # ""
            THEN PushPersist([w EXCEPT !.frames[f].finalResponse = answer.content], r,
                             Entry("assistant", answer.content, <<>>, 0))
            ELSE w
  IN IF answer.calls # <<>>
     THEN ExecTools([PushPersist(w1, r, AssistantWithCalls(answer))
                       EXCEPT !.frames[f].tools = answer.calls], f)
     ELSE AfterLoop(w1, f)

OnChat(w, f, answer) ==
  IF w.frames[f].phase = "main" THEN OnChatMain(w, f, answer) ELSE OnChatDrain(w, f, answer)

\* subagentSpawnTool.execute from `await runner.loadSkills()` on: bind the
\* child session, start runSubagentInBackground (which runs to the child's
\* first model call), return "accepted" to the caller
spawnResume(w, c) ==
  LET fr == w.frames[c]
      childSession == findBySessionKey(w, fr.key)
      w1 == IF childSession # 0 THEN bindSession(w, fr.runner, childSession) ELSE w
      w2 == markStarted([w1 EXCEPT !.frames[c].startedAt = w.now], fr.runId)
      w3 == RunStart(w2, c, fr.text, "user")
  IN IF fr.parent # 0 THEN OnToolReturn(w3, fr.parent, "accepted") ELSE w3

(***************************************************************************)
(* The environment: what the model answers, what is injected.              *)
(***************************************************************************)
Tool(id, name, cleanup) == [id |-> id, name |-> name, cleanup |-> cleanup]

Answer(content, calls) == [content |-> content, calls |-> calls]

PlainKinds == {"text", "empty", "bash"}

\* the kinds of answer the model may still give: those of budget.plain, and
\* those of budget.menu as long as budget.varied allows
Kinds == budget.plain \cup (IF budget.varied > 0 THEN budget.menu ELSE {})

\* the answer of each kind to the model call numbered n
AnswerOf(kind, n) ==
  CASE kind = "text" -> Answer("a" \o ToString(n), <<>>)
    [] kind = "empty" -> Answer("", <<>>)
    [] kind = "bash" -> Answer("", <<Tool(10 * n + 1, "bash", "")>>)
    [] kind = "both" -> Answer("a" \o ToString(n), <<Tool(10 * n + 1, "bash", "")>>)
    [] kind = "two" -> Answer("", <<Tool(10 * n + 1, "bash", ""), Tool(10 * n + 2, "read", "")>>)
    [] kind = "spawn" -> Answer("", <<Tool(10 * n + 1, "subagent_spawn", "")>>)
    [] kind = "keep" -> Answer("", <<Tool(10 * n + 1, "subagent_spawn", "keep")>>)
    [] kind = "send" -> Answer("", <<Tool(10 * n + 1, "session_send", "")>>)
    [] kind = "unknown" -> Answer("", <<Tool(10 * n + 1, "nope", "")>>)
    [] kind = "telegram" -> Answer("", <<Tool(10 * n + 1, "telegram_send", "")>>)
    [] kind = "blank" -> Answer(" ", <<>>)
    [] OTHER -> Answer("NO_REPLY", <<>>)

\* what the answer adds to the frame's record of the model's behaviour
Noted(w, f, answer) ==
  [w EXCEPT !.frames[f].lastText = IF answer.content # "" THEN answer.content ELSE @,
            !.frames[f].onlyTools = @ /\ answer.calls # <<>>]

\* runner.inject(message), with the record of what was steered in while a
\* tool call was executing
injectAt(w, r, message) ==
  LET wasEmpty == w.runners[r].injectedMessages = <<>>
      w1 == inject(w, r, message)
  IN [w1 EXCEPT !.frames = [f \in DOMAIN w.frames |->
        IF w.frames[f].runner = r /\ w.frames[f].pc = "tool"
        THEN [w.frames[f] EXCEPT
                !.steer = Append(@, [text |-> message, wasEmpty |-> wasEmpty]),
                !.steerTools = @ \cup {Head(w.frames[f].tools).id}]
        ELSE w.frames[f]]]

(***************************************************************************)
(* Actions shared by the specifications.                                   *)
(***************************************************************************)
\* llm.chat resolves with an answer
ChatReturn(f) ==
  /\ frames[f].pc = "chat"
  /\ ~SignalAborted(World, f)
  /\ budget.calls > 0
  /\ \E kind \in Kinds :
       LET answer == AnswerOf(kind, budget.calls) IN
       /\ Commit(OnChat(Noted(World, f, answer), f, answer))
       /\ budget' = [budget EXCEPT !.calls = @ - 1,
                                   !.varied = IF kind \in budget.plain THEN @ ELSE @ - 1]

\* tool.execute resolves
ToolReturn(f) ==
  /\ frames[f].pc = "tool"
  /\ Head(frames[f].tools).name # "subagent_spawn"
  /\ Commit(OnToolReturn(toolEnd(World, Head(frames[f].tools)), f,
                         toolOutput(Head(frames[f].tools))))
  /\ UNCHANGED budget

\* llm.chat or tool.execute rejects
RunThrow(f) ==
  /\ \/ frames[f].pc = "chat" /\ ~SignalAborted(World, f)
     \/ frames[f].pc = "tool" /\ Head(frames[f].tools).name # "subagent_spawn"
  /\ budget.throws > 0
  /\ Commit(ThrowRun(World, f, "failure"))
  /\ budget' = [budget EXCEPT !.throws = @ - 1]

\* runner.abort() is called while the runner is active
Abort(r) ==
  /\ budget.aborts > 0
  /\ isActive(World, r)
  /\ Commit(abort(World, r))
  /\ budget' = [budget EXCEPT !.aborts = @ - 1]

\* llm.chat rejects with an AbortError: its signal has aborted
ChatAborted(f) ==
  /\ frames[f].pc = "chat"
  /\ SignalAborted(World, f)
  /\ Commit(AbortRun(World, f))
  /\ UNCHANGED budget

\* the subagent runner's loadSkills resolves
SpawnResume(c) ==
  /\ frames[c].kind = "subagent"
  /\ frames[c].pc = "loadSkills"
  /\ Commit(spawnResume(World, c))
  /\ UNCHANGED budget

(***************************************************************************)
(* CronService and CronStore.  A job object is [id, schedule, message,     *)
(* enabled, lastRun, channel]; lastRun = 0 and channel = "" stand for      *)
(* absent fields.  The store's array and the scheduler callbacks hold      *)
(* references to the job objects, so cron is                               *)
(*   heap     the job objects created so far, by id (uuid: ids are fresh)  *)
(*   jobs     CronStore.jobs: the ids of the objects in the array          *)
(*   disk     the content of the store file: the jobs as last written      *)
(*   runners  CronService.runners: the ids of the jobs with a scheduler    *)
(*   op       the cron operation under way: its name, its job, where it    *)
(*            waits ("mkdir" or "write" inside CronStore.save) and the     *)
(*            text save handed to writeFile                                *)
(*   log      the operations completed, in order, with what they returned  *)
(*   fires    the invocations of the scheduler callback: the job, the time *)
(*            of the tick, where it waits ("mkdir", "write", or "handler"  *)
(*            once the trigger handler was called), the text handed to     *)
(*            writeFile, and the handler's invocation in frames            *)
(***************************************************************************)
NoOp == [name |-> "", id |-> 0, pc |-> "", snapshot |-> <<>>]

\* ops holds the operations that wait in their save while another operation
\* is called or resumed
NoCron ==
  [heap |-> <<>>, jobs |-> <<>>, disk |-> <<>>, runners |-> {}, op |-> NoOp,
   log |-> <<>>, fires |-> <<>>, ops |-> <<>>]

\* new CronJobRunner(schedule, ...) accepts the expression
ValidSchedule(schedule) == schedule = "* * * * *"

\* JSON.stringify(this.jobs)
stringifyJobs(w) == [i \in DOMAIN w.cron.jobs |-> w.cron.heap[w.cron.jobs[i]]]

\* CronStore.get(id) finds a job
storeHas(w, id) == \E i \in DOMAIN w.cron.jobs : w.cron.jobs[i] = id

\* CronStore.add up to save
storeAdd(w, job) ==
  [w EXCEPT !.cron.heap = Append(@, job), !.cron.jobs = Append(@, job.id)]

\* CronStore.remove up to save; the job is in the store
storeRemove(w, id) ==
  [w EXCEPT !.cron.jobs = SelectSeq(@, LAMBDA j : j # id)]

\* CronStore.update up to save: Object.assign(job, updates) with one field
storeUpdate(w, id, field, value) ==
  IF storeHas(w, id) THEN [w EXCEPT !.cron.heap[id][field] = value] ELSE w

\* CronService.scheduleJob
scheduleJob(w, id) ==
  IF ValidSchedule(w.cron.heap[id].schedule)
  THEN [w EXCEPT !.cron.runners = @ \cup {id}]
  ELSE w

\* runner.stop(); this.runners.delete(id)
stopRunner(w, id) == [w EXCEPT !.cron.runners = @ \ {id}]

\* an operation returns value
cronReturn(w, name, id, value) ==
  [w EXCEPT !.cron.op = NoOp,
            !.cron.log = Append(@, [name |-> name, id |-> id, value |-> value])]

\* an operation calls CronStore.save and awaits it
cronSave(w, name, id) ==
  [w EXCEPT !.cron.op = [name |-> name, id |-> id, pc |-> "mkdir", snapshot |-> <<>>]]

\* CronService.add up to its await
cronAdd(w, schedule, message) ==
  LET id == Len(w.cron.heap) + 1
      job == [id |-> id, schedule |-> schedule, message |-> message,
              enabled |-> TRUE, lastRun |-> 0, channel |-> ""]
  IN cronSave(storeAdd(w, job), "add", id)

\* CronService.remove up to its await
cronRemove(w, id) ==
  LET w1 == stopRunner(w, id)
  IN IF storeHas(w, id) THEN cronSave(storeRemove(w1, id), "remove", id)
     ELSE cronReturn(w1, "remove", id, FALSE)

\* CronService.enable up to its await
cronEnable(w, id) ==
  IF storeHas(w, id) THEN cronSave(storeUpdate(w, id, "enabled", TRUE), "enable", id)
  ELSE cronReturn(w, "enable", id, FALSE)

\* a variant that leaves the scheduler running
cronDisableRunning(w, id) ==
  IF storeHas(w, id) THEN cronSave(storeUpdate(w, id, "enabled", FALSE), "disable", id)
  ELSE cronReturn(w, "disable", id, FALSE)

\* CronService.disable up to its await
cronDisable(w, id) ==
  LET w1 == stopRunner(w, id)
  IN IF storeHas(w, id) THEN cronSave(storeUpdate(w1, id, "enabled", FALSE), "disable", id)
     ELSE cronReturn(w1, "disable", id, FALSE)

\* an operation from the end of CronStore.save on
cronSaved(w) ==
  LET op == w.cron.op
      w1 == [w EXCEPT !.cron.disk = op.snapshot]
  IN CASE op.name = "add" -> cronReturn(scheduleJob(w1, op.id), "add", op.id, TRUE)
       [] op.name = "enable" ->
            cronReturn(IF op.id \in w1.cron.runners THEN w1 ELSE scheduleJob(w1, op.id),
                       "enable", op.id, TRUE)
       [] OTHER -> cronReturn(w1, op.name, op.id, TRUE)

(***************************************************************************)
(* BindingManager: bindings.json holds the bindings in insertion order.    *)
(* An optional field that is absent holds Undefined (NoPeer for the peer,  *)
(* NoPriority for the priority).                                           *)
(***************************************************************************)
Undefined == "undefined"

NoPeer == [kind |-> Undefined, id |-> Undefined]

NoPriority == -1

BindingMatch(channel, accountId, peer, guildId, teamId) ==
  [channel |-> channel, accountId |-> accountId, peer |-> peer,
   guildId |-> guildId, teamId |-> teamId]

\* createBinding: push to the stored array and save
createBinding(w, agentId, match, priority) ==
  [w EXCEPT !.bindings =
     Append(@, [id |-> Len(@) + 1, agentId |-> agentId, match |-> match,
                priority |-> priority])]

\* a.priority ?? 100
priorityOf(b) == IF b.priority = NoPriority THEN 100 ELSE b.priority

\* Array.prototype.sort with (a, b) => priorityOf(a) - priorityOf(b): stable
RECURSIVE sortByPriority(_)
sortByPriority(list) ==
  IF list = <<>> THEN <<>>
  ELSE LET sorted == sortByPriority(SubSeq(list, 1, Len(list) - 1))
           b == list[Len(list)]
           k == Cardinality({i \in DOMAIN sorted : priorityOf(sorted[i]) <= priorityOf(b)})
       IN SubSeq(sorted, 1, k) \o <<b>> \o SubSeq(sorted, k + 1, Len(sorted))

\* a variant that returns the stored order
listBindingsStored(w) == w.bindings

listBindings(w) == sortByPriority(w.bindings)

\* Array.prototype.find: the first element passing the test, 0 for undefined
find(list, Test(_)) ==
  LET hits == {i \in DOMAIN list : Test(list[i])}
  IN IF hits = {} THEN 0 ELSE Min(hits)

\* Array.prototype.filter
filter(list, Test(_)) == SelectSeq(list, Test)

RouteResult(agentId, matchedBy, binding) ==
  [agentId |-> agentId, matchedBy |-> matchedBy, binding |-> binding]

Unconstrained(b) ==
  b.match.peer = NoPeer /\ b.match.guildId = Undefined /\ b.match.teamId = Undefined

resolveRoute(w, input, defaultAgentId) ==
  LET OnChannel(b) == b.match.channel = input.channel
      channelBindings == filter(listBindings(w), OnChannel)
      PeerTest(b) == b.match.peer.kind = input.peer.kind /\ b.match.peer.id = input.peer.id
      GuildTest(b) == b.match.guildId = input.guildId
      TeamTest(b) == b.match.teamId = input.teamId
      AccountTest(b) == b.match.accountId = input.accountId /\ Unconstrained(b)
      ChannelTest(b) == b.match.accountId \in {"*", Undefined} /\ Unconstrained(b)
      peerMatch == IF input.peer # NoPeer THEN find(channelBindings, PeerTest) ELSE 0
      guildMatch == IF input.guildId # Undefined THEN find(channelBindings, GuildTest) ELSE 0
      teamMatch == IF input.teamId # Undefined THEN find(channelBindings, TeamTest) ELSE 0
      accountMatch == IF input.accountId # Undefined THEN find(channelBindings, AccountTest) ELSE 0
      channelMatch == find(channelBindings, ChannelTest)
      Matched(i, by) == RouteResult(channelBindings[i].agentId, by, channelBindings[i].id)
  IN CASE peerMatch # 0 -> Matched(peerMatch, "peer")
       [] peerMatch = 0 /\ guildMatch # 0 -> Matched(guildMatch, "guild")
       [] peerMatch = 0 /\ guildMatch = 0 /\ teamMatch # 0 -> Matched(teamMatch, "team")
       [] peerMatch = 0 /\ guildMatch = 0 /\ teamMatch = 0 /\ accountMatch # 0 ->
            Matched(accountMatch, "account")
       [] peerMatch = 0 /\ guildMatch = 0 /\ teamMatch = 0 /\ accountMatch = 0
            /\ channelMatch # 0 -> Matched(channelMatch, "channel")
       [] OTHER -> RouteResult(defaultAgentId, "default", 0)

NoRoute == [input |-> BindingMatch("", Undefined, NoPeer, Undefined, Undefined),
            result |-> RouteResult("", "", 0)]
(***************************************************************************)
(* AgentManager: agents.json holds the configurations by id and the id of  *)
(* the default agent.  The parsed store is a plain object, so a lookup     *)
(* store.agents[id] also finds what Object.prototype defines.  made counts *)
(* the ids drawn by createAgent and result is what the last call returned. *)
(***************************************************************************)
PrototypeKeys == {"constructor", "__proto__"}

\* ensureDirs on a fresh data directory
NewAgentStore ==
  [agents |-> [id \in {"default"} |-> [name |-> "Default Agent"]],
   defaultAgentId |-> "default", made |-> 0, result |-> <<>>]

\* store.agents[agentId] is truthy
hasAgent(w, agentId) ==
  agentId \in DOMAIN w.agentStore.agents \/ agentId \in PrototypeKeys

agentReturn(w, name, agentId, value) ==
  [w EXCEPT !.agentStore.result = <<name, agentId, value>>]

createAgent(w, name) ==
  LET agentId == "a" \o ToString(w.agentStore.made + 1)
      w1 == [w EXCEPT !.agentStore.made = @ + 1,
                      !.agentStore.agents =
                         [id \in DOMAIN @ \cup {agentId} |->
                            IF id = agentId THEN [name |-> name] ELSE @[id]]]
  IN agentReturn(w1, "createAgent", agentId, TRUE)

\* store.agents[store.defaultAgentId] || null, as its agentId
getDefaultAgent(w) ==
  IF w.agentStore.defaultAgentId \in DOMAIN w.agentStore.agents
  THEN w.agentStore.defaultAgentId ELSE Undefined

setDefaultAgent(w, agentId) ==
  IF ~hasAgent(w, agentId) THEN agentReturn(w, "setDefaultAgent", agentId, FALSE)
  ELSE agentReturn([w EXCEPT !.agentStore.defaultAgentId = agentId],
                   "setDefaultAgent", agentId, TRUE)

\* Object.assign on an inherited value changes nothing that is stored
updateAgent(w, agentId, name) ==
  IF ~hasAgent(w, agentId) THEN agentReturn(w, "updateAgent", agentId, FALSE)
  ELSE IF agentId \in DOMAIN w.agentStore.agents
       THEN agentReturn([w EXCEPT !.agentStore.agents[agentId].name = name],
                        "updateAgent", agentId, TRUE)
       ELSE agentReturn(w, "updateAgent", agentId, TRUE)

deleteAgent(w, agentId) ==
  IF ~hasAgent(w, agentId) THEN agentReturn(w, "deleteAgent", agentId, FALSE)
  ELSE IF w.agentStore.defaultAgentId = agentId
       THEN agentReturn(w, "deleteAgent", agentId, FALSE)
       ELSE agentReturn([w EXCEPT !.agentStore.agents =
                            [id \in DOMAIN @ \ {agentId} |-> @[id]]],
                        "deleteAgent", agentId, TRUE)

(***************************************************************************)
(* LLMClient.parseOpenAIStream: the tool-call buffers in the order the Map *)
(* received their keys, the tool calls returned, the onToolCall calls, the *)
(* errors logged, and the deltas read so far.                              *)
(***************************************************************************)
NoIndex == -1

\* body and unread are the response stream and what the reader has not
\* delivered of it
NewStream ==
  [toolCallBuffers |-> <<>>, toolCalls |-> <<>>, onToolCall |-> <<>>,
   logged |-> <<>>, done |-> FALSE, deltas |-> <<>>,
   content |-> "", onChunk |-> <<>>, body |-> "", unread |-> ""]

RECURSIVE stripSpaces(_)
stripSpaces(s) ==
  IF Len(s) = 0 THEN ""
  ELSE IF SubSeq(s, 1, 1) = " " THEN stripSpaces(SubSeq(s, 2, Len(s)))
       ELSE SubSeq(s, 1, 1) \o stripSpaces(SubSeq(s, 2, Len(s)))

\* JSON.parse does not throw, for the texts the fragments can build
ValidJSON(s) == stripSpaces(s) \in {"{}", "{\"k\":1}"}

\* JSON.parse: the object as its set of key-value pairs
JSONparse(s) == IF stripSpaces(s) = "{}" THEN {} ELSE {<<"k", 1>>}

\* toolCallBuffers.has(idx), as the position of the buffer (0 for none)
bufferAt(st, idx) ==
  LET at == {i \in DOMAIN st.toolCallBuffers : st.toolCallBuffers[i].index = idx}
  IN IF at = {} THEN 0 ELSE Min(at)

\* a variant that keeps only the last fragment of the arguments
bufferDeltaLast(st, tc) ==
  LET idx == IF tc.index = NoIndex THEN 0 ELSE tc.index
      st1 == IF bufferAt(st, idx) = 0
             THEN [st EXCEPT !.toolCallBuffers =
                     Append(@, [index |-> idx, id |-> tc.id, name |-> "", args |-> ""])]
             ELSE st
      i == bufferAt(st1, idx)
  IN [st1 EXCEPT !.toolCallBuffers[i].id = IF tc.id # "" THEN tc.id ELSE @,
                 !.toolCallBuffers[i].name = IF tc.name # "" THEN tc.name ELSE @,
                 !.toolCallBuffers[i].args = IF tc.arguments # "" THEN tc.arguments ELSE @]

\* one element of delta.tool_calls
bufferDelta(st, tc) ==
  LET idx == IF tc.index = NoIndex THEN 0 ELSE tc.index
      st1 == IF bufferAt(st, idx) = 0
             THEN [st EXCEPT !.toolCallBuffers =
                     Append(@, [index |-> idx, id |-> tc.id, name |-> "", args |-> ""])]
             ELSE st
      i == bufferAt(st1, idx)
  IN [st1 EXCEPT !.toolCallBuffers[i].id = IF tc.id # "" THEN tc.id ELSE @,
                 !.toolCallBuffers[i].name = IF tc.name # "" THEN tc.name ELSE @,
                 !.toolCallBuffers[i].args = IF tc.arguments # "" THEN @ \o tc.arguments ELSE @]

\* the loop over toolCallBuffers.values() after the reader is done
RECURSIVE convertBuffers(_, _)
convertBuffers(st, i) ==
  IF i > Len(st.toolCallBuffers) THEN st
  ELSE LET buf == st.toolCallBuffers[i]
           text == IF buf.args # "" THEN buf.args ELSE "{}"
       IN IF buf.name = "" THEN convertBuffers(st, i + 1)
          ELSE IF ValidJSON(text)
               THEN convertBuffers(
                      [st EXCEPT !.toolCalls = Append(@, [id |-> buf.id, name |-> buf.name,
                                                          input |-> JSONparse(text)]),
                                 !.onToolCall = Append(@, [name |-> buf.name,
                                                           input |-> JSONparse(text)])],
                      i + 1)
               ELSE convertBuffers([st EXCEPT !.logged = Append(@, buf.args)], i + 1)


(***************************************************************************)
(* SpecRunner: one runner bound to one session, as processMessage sets it  *)
(* up, driven directly through run and inject.                             *)
(***************************************************************************)
MainKey == "web:1"

NoBudget ==
  [runs |-> 0, injects |-> 0, calls |-> 0, varied |-> 0, throws |-> 0,
   plain |-> PlainKinds, menu |-> {}, cleanups |-> {},
   msgs |-> 0, trigs |-> 0, spawns |-> 0, ticks |-> 0,
   crons |-> 0, posts |-> 0, deletes |-> 0, aborts |-> 0,
   ops |-> 0, fires |-> 0, deltas |-> 0, binds |-> 0, resolves |-> 0,
   edits |-> 0]

InitWorld ==
  [sessions |-> <<>>, transcripts |-> <<>>, runners |-> <<>>, frames |-> <<>>,
   agents |-> <<>>, outbox |-> <<>>, subRuns |-> <<>>, sweeperOn |-> FALSE,
   sweepAt |-> 0, queues |-> <<>>, triggers |-> <<>>, now |-> StartMs,
   replies |-> <<>>, cron |-> NoCron, bindings |-> <<>>, route |-> NoRoute,
   agentStore |-> NewAgentStore, stream |-> NewStream]

BoundRunner ==
  LET w1 == createSession(InitWorld, MainKey, "websocket")
      w2 == [w1 EXCEPT !.runners = <<NewRunner(FALSE)>>]
      w3 == bindSession(w2, 1, 1)
      w4 == [w3 EXCEPT !.runners[1].toolContext =
                          [sessionKey |-> MainKey, channel |-> "websocket"]]
  IN w4

\* the variables hold the world w
Holds(w) ==
  /\ sessions = w.sessions /\ transcripts = w.transcripts
  /\ runners = w.runners /\ frames = w.frames /\ agents = w.agents
  /\ outbox = w.outbox /\ subRuns = w.subRuns /\ sweeperOn = w.sweeperOn
  /\ sweepAt = w.sweepAt /\ queues = w.queues /\ triggers = w.triggers
  /\ now = w.now
  /\ replies = w.replies /\ cron = w.cron /\ bindings = w.bindings
  /\ route = w.route /\ agentStore = w.agentStore /\ stream = w.stream

RunnerInit ==
  /\ Holds(BoundRunner)
  /\ budget = [NoBudget EXCEPT !.runs = RunnerRuns, !.injects = RunnerInjects,
                  !.calls = RunnerCalls, !.varied = RunnerVaried, !.throws = RunnerThrows,
                  !.menu = {"both", "two", "spawn", "send", "unknown", "blank"}]

\* runner.run(userMessage) on the idle runner
RunDirect ==
  /\ budget.runs > 0
  /\ ~isActive(World, 1)
  /\ LET f == Len(frames) + 1
         w1 == [World EXCEPT !.frames =
                  Append(@, NewFrame("direct", 1, MainKey, "websocket",
                                     "u" \o ToString(budget.runs), "user"))]
     IN Commit(RunStart(w1, f, w1.frames[f].text, "user"))
  /\ budget' = [budget EXCEPT !.runs = @ - 1]

\* runner.inject(message) while the runner is active
InjectDirect ==
  /\ budget.injects > 0
  /\ isActive(World, 1)
  /\ Commit(injectAt(World, 1, "x" \o ToString(budget.injects)))
  /\ budget' = [budget EXCEPT !.injects = @ - 1]

RunnerNext ==
  \/ RunDirect
  \/ InjectDirect
  \/ \E f \in DOMAIN frames : ChatReturn(f)
  \/ \E f \in DOMAIN frames : ToolReturn(f)
  \/ \E f \in DOMAIN frames : RunThrow(f)
  \/ \E c \in DOMAIN frames : SpawnResume(c)

SpecRunner == RunnerInit /\ [][RunnerNext]_vars

(***************************************************************************)
(* SpecLoop: one run of that runner, long enough to exhaust maxIterations. *)
(***************************************************************************)
LoopInit ==
  /\ Holds(BoundRunner)
  /\ budget = [NoBudget EXCEPT !.runs = 1, !.injects = LoopInjects,
                  !.calls = LoopCalls, !.varied = LoopVaried,
                  !.menu = {"both", "blank"}]

LoopNext ==
  \/ RunDirect
  \/ InjectDirect
  \/ \E f \in DOMAIN frames : ChatReturn(f)
  \/ \E f \in DOMAIN frames : ToolReturn(f)

SpecLoop == LoopInit /\ [][LoopNext]_vars

(***************************************************************************)
(* SpecDrain: one run of that runner in which the model answers with text, *)
(* with a tool call or with nothing, and messages are injected on the way. *)
(***************************************************************************)
DrainInit ==
  /\ Holds(BoundRunner)
  /\ budget = [NoBudget EXCEPT !.runs = 1, !.injects = DrainInjects,
                  !.calls = DrainCalls, !.plain = {"text", "bash", "empty"}]

DrainNext ==
  \/ RunDirect
  \/ InjectDirect
  \/ \E f \in DOMAIN frames : ChatReturn(f)
  \/ \E f \in DOMAIN frames : ToolReturn(f)

SpecDrain == DrainInit /\ [][DrainNext]_vars

(***************************************************************************)
(* SpecExit: runs of that runner, with every way run can end.              *)
(***************************************************************************)
ExitInit ==
  /\ Holds(BoundRunner)
  /\ budget = [NoBudget EXCEPT !.runs = ExitRuns, !.calls = ExitCalls,
                  !.throws = ExitThrows, !.aborts = ExitAborts,
                  !.plain = {"text", "bash"}]

ExitNext ==
  \/ RunDirect
  \/ Abort(1)
  \/ \E f \in DOMAIN frames : ChatReturn(f)
  \/ \E f \in DOMAIN frames : ToolReturn(f)
  \/ \E f \in DOMAIN frames : RunThrow(f)
  \/ \E f \in DOMAIN frames : ChatAborted(f)

SpecExit == ExitInit /\ [][ExitNext]_vars

(***************************************************************************)
(* Gateway.  A message is [sessionKey, sessionId, channel, text, from];    *)
(* sessionId = 0 stands for an absent field.                               *)
(***************************************************************************)
Msg(sessionKey, channel, text, from) ==
  [sessionKey |-> sessionKey, sessionId |-> 0, channel |-> channel,
   text |-> text, from |-> from]

\* this.agents.get(key); 0 for undefined
agentsGet(w, key) == IF key \in DOMAIN w.agents THEN w.agents[key] ELSE 0

\* msg.sessionId || msg.sessionKey
RunnerKeyOf(sessionId, sessionKey) ==
  IF sessionId # 0 THEN ToString(sessionId) ELSE sessionKey

\* channel?.sendTyping: the Telegram channel has it, the WebSocket one not
HasTyping(channel) == channel = "telegram"

SourceOf(from) ==
  IF from = "cron" THEN "cron"
  ELSE IF from = "subagent-announce" THEN "subagent-announce" ELSE "user"

\* processMessage from the try block: agent.run up to its first model call
processRun(w, f) == RunStart(w, f, w.frames[f].text, w.frames[f].source)

\* processMessage with the runner in hand: setToolContext, then sendTyping
\* if the channel has it
processWithAgent(w, f) ==
  LET fr == w.frames[f]
      w1 == [w EXCEPT !.runners[fr.runner].toolContext =
                         [sessionKey |-> fr.key, channel |-> fr.channel]]
  IN IF HasTyping(fr.channel) THEN [w1 EXCEPT !.frames[f].pc = "typing"]
     ELSE processRun(w1, f)

\* processMessage from `await agent.loadSkills()` on: bind or create the
\* session, cache the runner
processLoaded(w, f) ==
  LET fr == w.frames[f]
      w1 == IF fr.msgSessionId # 0
            THEN IF getSession(w, fr.msgSessionId)
                 THEN bindSession(w, fr.runner, fr.msgSessionId)
                 ELSE w
            ELSE LET created == getOrCreate(w, fr.key, fr.channel)
                 IN bindSession(created, fr.runner, findBySessionKey(created, fr.key))
      runnerKey == RunnerKeyOf(fr.msgSessionId, fr.key)
      w2 == [w1 EXCEPT !.agents = (runnerKey :> fr.runner) @@ @]
  IN processWithAgent(w2, f)

\* processMessage(msg) up to its first await; kind tells the caller
processMessage(w, msg, kind) ==
  LET f == Len(w.frames) + 1
      runnerKey == RunnerKeyOf(msg.sessionId, msg.sessionKey)
      cached == agentsGet(w, runnerKey)
      discard == /\ cached # 0
                 /\ w.runners[cached].sessionId # 0
                 /\ ~getSession(w, w.runners[cached].sessionId)
      w1 == IF discard
            THEN [w EXCEPT !.agents = [k \in DOMAIN w.agents \ {runnerKey} |-> w.agents[k]]]
            ELSE w
      agent == IF discard THEN 0 ELSE cached
      frame == [NewFrame(kind, agent, msg.sessionKey, msg.channel, msg.text,
                         SourceOf(msg.from))
                  EXCEPT !.msgSessionId = msg.sessionId]
  IN IF agent = 0
     THEN [w1 EXCEPT !.runners = Append(@, NewRunner(FALSE)),
                     !.frames = Append(@, [frame EXCEPT !.runner = Len(w.runners) + 1,
                                                        !.pc = "loadSkills"])]
     ELSE processWithAgent([w1 EXCEPT !.frames = Append(@, frame)], f)

\* the steer callback registered with the FollowupQueue
onSteer(w, sessionKey, msg) ==
  LET agent == agentsGet(w, sessionKey)
  IN IF agent # 0 /\ isActive(w, agent) THEN injectAt(w, agent, msg.text)
     ELSE processMessage(w, Msg(sessionKey, msg.channel, msg.text, sessionKey), "message")

\* FollowupQueue.enqueue in steer mode
enqueue(w, msg) == onSteer(w, msg.sessionKey, msg)

handleMessage(w, msg) ==
  LET agent == agentsGet(w, msg.sessionKey)
  IN IF agent # 0 /\ isActive(w, agent) THEN enqueue(w, msg)
     ELSE processMessage(w, msg, "message")

\* a call of triggerAgent and what it has returned ("pending": not yet)
Reply(sessionKey, message, frame, value) ==
  [sessionKey |-> sessionKey, message |-> message, frame |-> frame, value |-> value]

\* a variant that never steers
triggerAgentFresh(w, sessionKey, channel, message) ==
  processMessage([w EXCEPT !.replies =
                    Append(@, Reply(sessionKey, message, Len(w.frames) + 1, "pending"))],
                 Msg(sessionKey, channel, message, "subagent-announce"), "trigger")

triggerAgent(w, sessionKey, channel, message) ==
  LET agent == agentsGet(w, sessionKey)
  IN IF agent # 0 /\ isActive(w, agent)
     THEN [injectAt(w, agent, message) EXCEPT !.replies =
             Append(@, Reply(sessionKey, message, 0, "steered"))]
     ELSE processMessage([w EXCEPT !.replies =
                            Append(@, Reply(sessionKey, message, Len(w.frames) + 1,
                                            "pending"))],
                         Msg(sessionKey, channel, message, "subagent-announce"),
                         "trigger")

\* a cron job is [id, message, channel]; channel = "" stands for an absent
\* field
CronKey(job) == "cron:" \o ToString(job.id)

\* runCronJob(job) up to `await runner.loadSkills()`
runCronJob(w, job) ==
  LET deliveryChannel == Or(job.channel, "telegram")
      frame == [NewFrame("cron", Len(w.runners) + 1, CronKey(job), deliveryChannel,
                         job.message, "cron")
                  EXCEPT !.pc = "loadSkills"]
  IN [w EXCEPT !.runners = Append(@, NewRunner(FALSE)),
               !.frames = Append(@, frame)]

\* a variant that looks the session of the job up before creating one
cronLoadedShared(w, f) ==
  LET fr == w.frames[f]
      w1 == getOrCreate(w, fr.key, "cron")
      w2 == bindSession(w1, fr.runner, findBySessionKey(w1, fr.key))
      w3 == [w2 EXCEPT !.runners[fr.runner].toolContext =
                          [sessionKey |-> fr.key, channel |-> fr.channel]]
  IN RunStart(w3, f, fr.text, "cron")

\* runCronJob from `await runner.loadSkills()` on: create the session, bind
\* it, set the tool context, run to the first model call
cronLoaded(w, f) ==
  LET fr == w.frames[f]
      sessionId == NextSid(w)
      w1 == createSession(w, fr.key, "cron")
      w2 == bindSession(w1, fr.runner, sessionId)
      w3 == [w2 EXCEPT !.runners[fr.runner].toolContext =
                          [sessionKey |-> fr.key, channel |-> fr.channel]]
  IN RunStart(w3, f, fr.text, "cron")

\* POST /api/sessions from `await this.parseBody(req)` on
apiCreateSession(w, sessionKey) == createSession(w, sessionKey, inferChannel(sessionKey))

\* DELETE /api/sessions/:id
apiDeleteSession(w, sessionId) == deleteSession(w, sessionId)

(***************************************************************************)
(* Spec: the gateway with its two channels, one chat on each.              *)
(***************************************************************************)
ChannelOf(sessionKey) == IF sessionKey = "telegram:7" THEN "telegram" ELSE "websocket"

Keys == {MainKey, "telegram:7"}

Init ==
  /\ Holds(InitWorld)
  /\ budget = [NoBudget EXCEPT !.msgs = GatewayMsgs, !.trigs = GatewayTrigs,
                  !.calls = GatewayCalls, !.throws = GatewayThrows,
                  !.plain = {"text", "bash"}]

\* a channel delivers a message to the handler the gateway registered
Receive(sessionKey) ==
  /\ budget.msgs > 0
  /\ Commit(handleMessage(World, Msg(sessionKey, ChannelOf(sessionKey),
                                     "m" \o ToString(budget.msgs), sessionKey)))
  /\ budget' = [budget EXCEPT !.msgs = @ - 1]

\* triggerAgent is called through the gateway reference
Trigger(sessionKey) ==
  /\ budget.trigs > 0
  /\ Commit(triggerAgent(World, sessionKey, ChannelOf(sessionKey),
                         "r" \o ToString(budget.trigs)))
  /\ budget' = [budget EXCEPT !.trigs = @ - 1]

\* the new runner's loadSkills resolves
SkillsLoaded(f) ==
  /\ IsGatewayKind(frames[f].kind)
  /\ frames[f].pc = "loadSkills"
  /\ Commit(processLoaded(World, f))
  /\ UNCHANGED budget

\* channel.sendTyping resolves
TypingDone(f) ==
  /\ frames[f].pc = "typing"
  /\ Commit(processRun(World, f))
  /\ UNCHANGED budget

Next ==
  \/ \E sessionKey \in Keys : Receive(sessionKey)
  \/ \E sessionKey \in Keys : Trigger(sessionKey)
  \/ \E f \in DOMAIN frames : SkillsLoaded(f)
  \/ \E f \in DOMAIN frames : TypingDone(f)
  \/ \E f \in DOMAIN frames : ChatReturn(f)
  \/ \E f \in DOMAIN frames : ToolReturn(f)
  \/ \E f \in DOMAIN frames : RunThrow(f)

Spec == Init /\ [][Next]_vars

(***************************************************************************)
(* SpecConcurrent: the gateway receiving more messages than it gets        *)
(* answers, so that several calls of processMessage are under way at once. *)
(***************************************************************************)
ConcurrentInit ==
  /\ Holds(InitWorld)
  /\ budget = [NoBudget EXCEPT !.msgs = ConcurrentMsgs,
                  !.calls = ConcurrentCalls, !.plain = {"text"}]

ConcurrentNext ==
  \/ \E sessionKey \in Keys : Receive(sessionKey)
  \/ \E f \in DOMAIN frames : SkillsLoaded(f)
  \/ \E f \in DOMAIN frames : TypingDone(f)
  \/ \E f \in DOMAIN frames : ChatReturn(f)

SpecConcurrent == ConcurrentInit /\ [][ConcurrentNext]_vars

(***************************************************************************)
(* SpecTurn: the gateway with one web chat, whose turns end with a reply,  *)
(* with NO_REPLY, with the fallback or by an error.  SpecAbort: the same   *)
(* chat, whose model calls tools and whose runners are aborted.            *)
(***************************************************************************)
TurnInit ==
  /\ Holds(InitWorld)
  /\ budget = [NoBudget EXCEPT !.msgs = TurnMsgs, !.calls = TurnCalls,
                  !.throws = TurnThrows,
                  !.plain = {"text", "blank", "NO_REPLY"}]

TurnNext ==
  \/ Receive(MainKey)
  \/ \E f \in DOMAIN frames : SkillsLoaded(f)
  \/ \E f \in DOMAIN frames : ChatReturn(f)
  \/ \E f \in DOMAIN frames : RunThrow(f)

SpecTurn == TurnInit /\ [][TurnNext]_vars

AbortInit ==
  /\ Holds(InitWorld)
  /\ budget = [NoBudget EXCEPT !.msgs = AbortMsgs, !.calls = AbortCalls,
                  !.aborts = AbortAborts, !.plain = {"text", "bash"}]

AbortNext ==
  \/ Receive(MainKey)
  \/ \E r \in DOMAIN runners : Abort(r)
  \/ \E f \in DOMAIN frames : SkillsLoaded(f)
  \/ \E f \in DOMAIN frames : ChatReturn(f)
  \/ \E f \in DOMAIN frames : ToolReturn(f)
  \/ \E f \in DOMAIN frames : ChatAborted(f)

SpecAbort == AbortInit /\ [][AbortNext]_vars

(***************************************************************************)
(* SpecOps: the gateway with its cron handler and the session API beside   *)
(* the Telegram chat; the model may call telegram_send.                    *)
(***************************************************************************)
Jobs == {[id |-> 1, message |-> "job", channel |-> ""]}

OpsKeys == {"telegram:7", "cron:1"}

OpsInit ==
  /\ Holds(InitWorld)
  /\ budget = [NoBudget EXCEPT !.msgs = OpsMsgs, !.crons = OpsCrons,
                  !.posts = OpsPosts, !.deletes = OpsDeletes,
                  !.calls = OpsCalls, !.varied = OpsVaried,
                  !.plain = {"text"}, !.menu = {"telegram"}]

\* the cron service fires a job
CronFire(job) ==
  /\ budget.crons > 0
  /\ Commit(runCronJob(World, job))
  /\ budget' = [budget EXCEPT !.crons = @ - 1]

\* the cron runner's loadSkills resolves
CronLoaded(f) ==
  /\ frames[f].kind = "cron"
  /\ frames[f].pc = "loadSkills"
  /\ Commit(cronLoaded(World, f))
  /\ UNCHANGED budget

\* POST /api/sessions with a session key
ApiCreate(sessionKey) ==
  /\ budget.posts > 0
  /\ Commit(apiCreateSession(World, sessionKey))
  /\ budget' = [budget EXCEPT !.posts = @ - 1]

\* DELETE /api/sessions/:id of a session of the index
ApiDelete(sessionId) ==
  /\ budget.deletes > 0
  /\ Commit(apiDeleteSession(World, sessionId))
  /\ budget' = [budget EXCEPT !.deletes = @ - 1]

OpsNext ==
  \/ Receive("telegram:7")
  \/ \E job \in Jobs : CronFire(job)
  \/ \E f \in DOMAIN frames : CronLoaded(f)
  \/ \E sessionKey \in OpsKeys : ApiCreate(sessionKey)
  \/ \E sessionId \in DOMAIN sessions : ApiDelete(sessionId)
  \/ \E f \in DOMAIN frames : SkillsLoaded(f)
  \/ \E f \in DOMAIN frames : TypingDone(f)
  \/ \E f \in DOMAIN frames : ChatReturn(f)
  \/ \E f \in DOMAIN frames : ToolReturn(f)

SpecOps == OpsInit /\ [][OpsNext]_vars

(***************************************************************************)
(* SpecCron: the gateway's cron handler beside a web chat.                 *)
(***************************************************************************)
CronInit ==
  /\ Holds(InitWorld)
  /\ budget = [NoBudget EXCEPT !.msgs = CronMsgs, !.crons = CronFires,
                  !.calls = CronCalls, !.plain = {"text", "telegram"}]

CronNext ==
  \/ Receive(MainKey)
  \/ \E job \in Jobs : CronFire(job)
  \/ \E f \in DOMAIN frames : CronLoaded(f)
  \/ \E f \in DOMAIN frames : SkillsLoaded(f)
  \/ \E f \in DOMAIN frames : ChatReturn(f)
  \/ \E f \in DOMAIN frames : ToolReturn(f)

SpecCron == CronInit /\ [][CronNext]_vars

(***************************************************************************)
(* SpecSched: the cron service with one job loaded and scheduled by        *)
(* start(), the operations of its API applied one after another, and the   *)
(* schedulers' callbacks with the gateway's trigger handler.  The          *)
(* scheduler of a job calls its callback at the times of the job's         *)
(* schedule for as long as it has not been stopped.                        *)
(***************************************************************************)
\* a variant of the callback that leaves lastRun alone
cronTickUnstamped(w, id) ==
  [w EXCEPT !.cron.fires = Append(@,
     [id |-> id, at |-> w.now, pc |-> IF storeHas(w, id) THEN "mkdir" ELSE "nosave",
      snapshot |-> <<>>, frame |-> 0])]

\* the scheduler callback of job id up to its await:
\* store.update(job.id, {lastRun: Date.now()})
cronTick(w, id) ==
  LET w1 == storeUpdate(w, id, "lastRun", w.now)
  IN [w1 EXCEPT !.cron.fires = Append(@,
        [id |-> id, at |-> w.now, pc |-> IF storeHas(w, id) THEN "mkdir" ELSE "nosave",
         snapshot |-> <<>>, frame |-> 0])]

\* the callback from the end of store.update on: this.handler(job), which
\* is the gateway's runCronJob
cronHandle(w, i) ==
  LET fire == w.cron.fires[i]
      w1 == IF fire.pc = "write" THEN [w EXCEPT !.cron.disk = fire.snapshot] ELSE w
      w2 == runCronJob(w1, w1.cron.heap[fire.id])
  IN [w2 EXCEPT !.cron.fires[i].pc = "handler", !.cron.fires[i].frame = Len(w2.frames)]

Schedules == {"* * * * *", "every minute"}

LoadedJob ==
  [id |-> 1, schedule |-> "* * * * *", message |-> "job", enabled |-> TRUE,
   lastRun |-> 0, channel |-> ""]

SchedInit ==
  /\ Holds([InitWorld EXCEPT !.cron.heap = <<LoadedJob>>, !.cron.jobs = <<1>>,
                             !.cron.disk = <<LoadedJob>>, !.cron.runners = {1}])
  /\ budget = [NoBudget EXCEPT !.ops = SchedOps, !.fires = SchedFires]

\* an operation of the cron API is called while none is under way
CronCall(name, id) ==
  /\ budget.ops > 0
  /\ cron.op = NoOp
  /\ CASE name = "add" -> \E schedule \in Schedules : Commit(cronAdd(World, schedule, "job"))
       [] name = "remove" -> Commit(cronRemove(World, id))
       [] name = "enable" -> Commit(cronEnable(World, id))
       [] name = "disable" -> Commit(cronDisable(World, id))
  /\ budget' = [budget EXCEPT !.ops = @ - 1]

\* mkdir resolves in the save of the operation: writeFile is called
OpMkdir ==
  /\ cron.op.pc = "mkdir"
  /\ Commit([World EXCEPT !.cron.op.pc = "write",
                          !.cron.op.snapshot = stringifyJobs(World)])
  /\ UNCHANGED budget

\* writeFile resolves in the save of the operation
OpSaved ==
  /\ cron.op.pc = "write"
  /\ Commit(cronSaved(World))
  /\ UNCHANGED budget

\* the scheduler of a job ticks, a minute of its schedule having come
FireTick(id) ==
  /\ budget.fires > 0
  /\ id \in cron.runners
  /\ Commit(cronTick([World EXCEPT !.now = @ + MinuteMs], id))
  /\ budget' = [budget EXCEPT !.fires = @ - 1]

\* mkdir resolves in the save of a callback: writeFile is called
FireMkdir(i) ==
  /\ cron.fires[i].pc = "mkdir"
  /\ Commit([World EXCEPT !.cron.fires[i].pc = "write",
                          !.cron.fires[i].snapshot = stringifyJobs(World)])
  /\ UNCHANGED budget

\* store.update resolves in a callback
FireSaved(i) ==
  /\ cron.fires[i].pc \in {"write", "nosave"}
  /\ Commit(cronHandle(World, i))
  /\ UNCHANGED budget

SchedNext ==
  \/ \E name \in {"add", "remove", "enable", "disable"} :
       \E id \in DOMAIN cron.heap : CronCall(name, id)
  \/ OpMkdir
  \/ OpSaved
  \/ \E id \in DOMAIN cron.heap : FireTick(id)
  \/ \E i \in DOMAIN cron.fires : FireMkdir(i)
  \/ \E i \in DOMAIN cron.fires : FireSaved(i)

SpecSched == SchedInit /\ [][SchedNext]_vars

(***************************************************************************)
(* SpecInterleave: cron operations called while earlier ones still wait in *)
(* their save; every schedule is one the scheduler accepts.                *)
(***************************************************************************)
InterInit ==
  /\ Holds([InitWorld EXCEPT !.cron.heap = <<LoadedJob>>, !.cron.jobs = <<1>>,
                             !.cron.disk = <<LoadedJob>>, !.cron.runners = {1}])
  /\ budget = [NoBudget EXCEPT !.ops = InterOps]

\* the operation just called has reached its await: the event loop is free
awaiting(w) ==
  IF w.cron.op = NoOp THEN w
  ELSE [w EXCEPT !.cron.ops = Append(@, w.cron.op), !.cron.op = NoOp]

\* the waiting operation i is the one to continue
resumed(w, i) ==
  [w EXCEPT !.cron.op = w.cron.ops[i],
            !.cron.ops = SubSeq(@, 1, i - 1) \o SubSeq(@, i + 1, Len(@))]

\* an operation of the cron API is called, whatever else is under way
CronCallAny(name, id) ==
  /\ budget.ops > 0
  /\ CASE name = "add" -> Commit(awaiting(cronAdd(World, "* * * * *", "job")))
       [] name = "remove" -> Commit(awaiting(cronRemove(World, id)))
       [] name = "enable" -> Commit(awaiting(cronEnable(World, id)))
       [] name = "disable" -> Commit(awaiting(cronDisable(World, id)))
  /\ budget' = [budget EXCEPT !.ops = @ - 1]

\* mkdir resolves in the save of a waiting operation: writeFile is called
AnyMkdir(i) ==
  /\ cron.ops[i].pc = "mkdir"
  /\ Commit([World EXCEPT !.cron.ops[i].pc = "write",
                          !.cron.ops[i].snapshot = stringifyJobs(World)])
  /\ UNCHANGED budget

\* writeFile resolves in the save of a waiting operation
AnySaved(i) ==
  /\ cron.ops[i].pc = "write"
  /\ Commit(cronSaved(resumed(World, i)))
  /\ UNCHANGED budget

InterNext ==
  \/ \E name \in {"add", "remove", "enable", "disable"} :
       \E id \in DOMAIN cron.heap : CronCallAny(name, id)
  \/ \E i \in DOMAIN cron.ops : AnyMkdir(i)
  \/ \E i \in DOMAIN cron.ops : AnySaved(i)

SpecInterleave == InterInit /\ [][InterNext]_vars

(***************************************************************************)
(* SpecFire: the schedulers' callbacks with the turns the trigger handler  *)
(* runs.                                                                   *)
(***************************************************************************)
FireInit ==
  /\ Holds([InitWorld EXCEPT !.cron.heap = <<LoadedJob>>, !.cron.jobs = <<1>>,
                             !.cron.disk = <<LoadedJob>>, !.cron.runners = {1}])
  /\ budget = [NoBudget EXCEPT !.fires = FireFires,
                  !.calls = FireCalls, !.throws = FireThrows, !.plain = {"text"}]

FireNext ==
  \/ \E id \in DOMAIN cron.heap : FireTick(id)
  \/ \E i \in DOMAIN cron.fires : FireMkdir(i)
  \/ \E i \in DOMAIN cron.fires : FireSaved(i)
  \/ \E f \in DOMAIN frames : CronLoaded(f)
  \/ \E f \in DOMAIN frames : ChatReturn(f)
  \/ \E f \in DOMAIN frames : RunThrow(f)

SpecFire == FireInit /\ [][FireNext]_vars

(***************************************************************************)
(* SpecRoute: bindings are created and routes are resolved.                *)
(***************************************************************************)
Peer1 == [kind |-> "dm", id |-> "p1"]

Group1 == [kind |-> "group", id |-> "p1"]

\* the matches a created binding may carry
Matches ==
  {BindingMatch("telegram", Undefined, Peer1, Undefined, Undefined),
   BindingMatch("telegram", Undefined, NoPeer, "g1", Undefined),
   BindingMatch("telegram", Undefined, NoPeer, Undefined, "t1"),
   BindingMatch("telegram", "a1", NoPeer, Undefined, Undefined),
   BindingMatch("telegram", "*", NoPeer, Undefined, Undefined),
   BindingMatch("telegram", Undefined, NoPeer, Undefined, Undefined)}

Priorities == {NoPriority, 50, 200}

\* the inputs a route may be resolved for
RouteInputs ==
  {BindingMatch("telegram", "a1", Peer1, "g1", "t1"),
   BindingMatch("telegram", "a1", NoPeer, "g1", "t1"),
   BindingMatch("telegram", "a1", NoPeer, Undefined, "t1"),
   BindingMatch("telegram", "a1", NoPeer, Undefined, Undefined),
   BindingMatch("telegram", Undefined, NoPeer, Undefined, Undefined),
   BindingMatch("telegram", Undefined, Group1, Undefined, Undefined),
   BindingMatch("telegram", Undefined, Peer1, "g1", Undefined),
   BindingMatch("discord", "a1", Peer1, "g1", "t1")}

RouteInit ==
  /\ Holds(InitWorld)
  /\ budget = [NoBudget EXCEPT !.binds = RouteBinds, !.resolves = RouteResolves]

\* POST /api/bindings
CreateBinding(match, priority) ==
  /\ budget.binds > 0
  /\ Commit(createBinding(World, "work", match, priority))
  /\ budget' = [budget EXCEPT !.binds = @ - 1]

\* POST /api/bindings/resolve
ResolveRoute(input) ==
  /\ budget.resolves > 0
  /\ Commit([World EXCEPT !.route =
               [input |-> input, result |-> resolveRoute(World, input, "default")]])
  /\ budget' = [budget EXCEPT !.resolves = @ - 1]

RouteNext ==
  \/ \E match \in Matches, priority \in Priorities : CreateBinding(match, priority)
  \/ \E input \in RouteInputs : ResolveRoute(input)

SpecRoute == RouteInit /\ [][RouteNext]_vars

(***************************************************************************)
(* SpecAgents: the agent API called with the ids of the URL.               *)
(***************************************************************************)
AgentIds == {"default", "a1", "a2", "ghost", "constructor", "__proto__"}

AgentsInit ==
  /\ Holds(InitWorld)
  /\ budget = [NoBudget EXCEPT !.edits = AgentEdits]

\* POST /api/agents
CreateAgent ==
  /\ budget.edits > 0
  /\ Commit(createAgent(World, "Helper"))
  /\ budget' = [budget EXCEPT !.edits = @ - 1]

\* PUT /api/agents/:id
UpdateAgent(agentId) ==
  /\ budget.edits > 0
  /\ Commit(updateAgent(World, agentId, "Renamed"))
  /\ budget' = [budget EXCEPT !.edits = @ - 1]

\* DELETE /api/agents/:id
DeleteAgent(agentId) ==
  /\ budget.edits > 0
  /\ Commit(deleteAgent(World, agentId))
  /\ budget' = [budget EXCEPT !.edits = @ - 1]

\* POST /api/agents/:id/set-default
SetDefaultAgent(agentId) ==
  /\ budget.edits > 0
  /\ Commit(setDefaultAgent(World, agentId))
  /\ budget' = [budget EXCEPT !.edits = @ - 1]

AgentsNext ==
  \/ CreateAgent
  \/ \E agentId \in AgentIds : UpdateAgent(agentId)
  \/ \E agentId \in AgentIds : DeleteAgent(agentId)
  \/ \E agentId \in AgentIds : SetDefaultAgent(agentId)

SpecAgents == AgentsInit /\ [][AgentsNext]_vars

(***************************************************************************)
(* SpecStream: one streamed response, read delta by delta to its end.      *)
(***************************************************************************)
ToolCallDelta(index, id, name, arguments) ==
  [index |-> index, id |-> id, name |-> name, arguments |-> arguments]

\* the elements of delta.tool_calls a response may carry
Deltas ==
  {ToolCallDelta(0, "c0", "read", "{"),
   ToolCallDelta(0, "", "", "\"k\":1"),
   ToolCallDelta(0, "", "", "}"),
   ToolCallDelta(NoIndex, "", "", " }"),
   ToolCallDelta(1, "c1", "write", ""),
   ToolCallDelta(1, "", "", "{"),
   ToolCallDelta(1, "", "", "}")}

StreamInit ==
  /\ Holds(InitWorld)
  /\ budget = [NoBudget EXCEPT !.deltas = StreamDeltas]

\* reader.read() resolves with a chunk that carries one tool-call delta
ReadDelta(tc) ==
  /\ budget.deltas > 0
  /\ ~stream.done
  /\ Commit([World EXCEPT !.stream =
               [bufferDelta(@, tc) EXCEPT !.deltas = Append(@, tc)]])
  /\ budget' = [budget EXCEPT !.deltas = @ - 1]

\* reader.read() resolves with done
ReadDone ==
  /\ ~stream.done
  /\ Commit([World EXCEPT !.stream = [convertBuffers(@, 1) EXCEPT !.done = TRUE]])
  /\ UNCHANGED budget

StreamNext ==
  \/ \E tc \in Deltas : ReadDelta(tc)
  \/ ReadDone

SpecStream == StreamInit /\ [][StreamNext]_vars

(***************************************************************************)
(* SpecChunks: the OpenAI stream parser reading one response body that the *)
(* transport delivers in pieces.                                           *)
(***************************************************************************)
\* parsed.choices?.[0]?.delta of the event payloads of the model
ContentA == "{\"choices\":[{\"delta\":{\"content\":\"a\"}}]}"

ContentB == "{\"choices\":[{\"delta\":{\"content\":\"b\"}}]}"

ToolCallC ==
  "{\"choices\":[{\"delta\":{\"tool_calls\":[{\"index\":0,\"id\":\"c1\",\"function\":{\"name\":\"bash\"}}]}}]}"

\* JSON.parse(data) does not throw: a cut-off piece of a payload never parses
ParsesEvent(data) == data \in {ContentA, ContentB, ToolCallC}

deltaOf(data) ==
  CASE data = ContentA -> [content |-> "a", tool_calls |-> <<>>]
    [] data = ContentB -> [content |-> "b", tool_calls |-> <<>>]
    [] data = ToolCallC -> [content |-> "", tool_calls |-> <<ToolCallDelta(0, "c1", "bash", "")>>]

\* chunk.split('\n') from position a on
RECURSIVE splitFrom(_, _)
splitFrom(s, a) ==
  LET ends == {i \in a..Len(s) : SubSeq(s, i, i) = "\n"}
  IN IF ends = {} THEN <<SubSeq(s, a, Len(s))>>
     ELSE <<SubSeq(s, a, Min(ends) - 1)>> \o splitFrom(s, Min(ends) + 1)

startsWithData(l) == Len(l) >= 6 /\ SubSeq(l, 1, 6) = "data: "

\* the for loop over delta.tool_calls
RECURSIVE bufferDeltas(_, _)
bufferDeltas(st, tcs) ==
  IF tcs = <<>> THEN st ELSE bufferDeltas(bufferDelta(st, Head(tcs)), Tail(tcs))

\* the body of `for (const line of lines)`
parseLine(st, line) ==
  LET data == SubSeq(line, 7, Len(line))
  IN IF data = "[DONE]" \/ ~ParsesEvent(data) THEN st
     ELSE LET delta == deltaOf(data)
              st1 == IF delta.content # ""
                     THEN [st EXCEPT !.content = @ \o delta.content,
                                     !.onChunk = Append(@, delta.content)]
                     ELSE st
          IN bufferDeltas(st1, delta.tool_calls)

RECURSIVE parseLines(_, _)
parseLines(st, lines) ==
  IF lines = <<>> THEN st ELSE parseLines(parseLine(st, Head(lines)), Tail(lines))

\* one pass of the read loop with the chunk the reader delivered
parseChunk(st, chunk) ==
  parseLines(st, SelectSeq(splitFrom(chunk, 1), startsWithData))

Bodies ==
  {"data: " \o ContentA \o "\n\ndata: " \o ContentB \o "\n\ndata: " \o ToolCallC
     \o "\n\ndata: [DONE]\n\n"}

ChunksInit ==
  /\ \E body \in Bodies :
       Holds([InitWorld EXCEPT !.stream = [NewStream EXCEPT !.body = body, !.unread = body]])
  /\ budget = [NoBudget EXCEPT !.deltas = ChunkReads]

\* reader.read() resolves with the next n bytes of the body; the last read
\* the budget allows delivers all that is left
ReadChunk(n) ==
  /\ budget.deltas > 0
  /\ ~stream.done
  /\ n \in 1..Len(stream.unread)
  /\ budget.deltas = 1 => n = Len(stream.unread)
  /\ Commit([World EXCEPT !.stream =
               parseChunk([@ EXCEPT !.unread = SubSeq(@, n + 1, Len(@))],
                          SubSeq(stream.unread, 1, n))])
  /\ budget' = [budget EXCEPT !.deltas = @ - 1]

\* reader.read() resolves with done once the body is delivered
ReadEnd ==
  /\ ~stream.done
  /\ stream.body # "" /\ stream.unread = ""
  /\ Commit([World EXCEPT !.stream = [convertBuffers(@, 1) EXCEPT !.done = TRUE]])
  /\ UNCHANGED budget

ChunksNext ==
  \/ \E n \in 1..Len(stream.unread) : ReadChunk(n)
  \/ ReadEnd

SpecChunks == ChunksInit /\ [][ChunksNext]_vars

(***************************************************************************)
(* SpecSteer: one WebSocket chat whose messages may carry a sessionId, and *)
(* triggerAgent called for its session key.                                *)
(***************************************************************************)
SessionIds == {1}

SteerInit ==
  /\ Holds(InitWorld)
  /\ budget = [NoBudget EXCEPT !.msgs = SteerMsgs, !.trigs = SteerTrigs,
                  !.calls = SteerCalls, !.throws = SteerThrows,
                  !.plain = {"text"}]

\* the WebSocket channel delivers a message whose payload names a session
ReceiveResumed(sessionKey, sessionId) ==
  /\ budget.msgs > 0
  /\ Commit(handleMessage(World,
              [Msg(sessionKey, "websocket", "m" \o ToString(budget.msgs), sessionKey)
                 EXCEPT !.sessionId = sessionId]))
  /\ budget' = [budget EXCEPT !.msgs = @ - 1]

SteerNext ==
  \/ Receive(MainKey)
  \/ \E sessionId \in SessionIds : ReceiveResumed(MainKey, sessionId)
  \/ Trigger(MainKey)
  \/ \E f \in DOMAIN frames : SkillsLoaded(f)
  \/ \E f \in DOMAIN frames : ChatReturn(f)
  \/ \E f \in DOMAIN frames : RunThrow(f)

SpecSteer == SteerInit /\ [][SteerNext]_vars

(***************************************************************************)
(* SpecResume: one WebSocket chat that sends messages with and without a   *)
(* sessionId while earlier turns are still running.                        *)
(***************************************************************************)
ResumeInit ==
  /\ Holds(InitWorld)
  /\ budget = [NoBudget EXCEPT !.msgs = ResumeMsgs, !.calls = ResumeCalls,
                  !.plain = {"text"}]

ResumeNext ==
  \/ Receive(MainKey)
  \/ \E sessionId \in SessionIds : ReceiveResumed(MainKey, sessionId)
  \/ \E f \in DOMAIN frames : SkillsLoaded(f)
  \/ \E f \in DOMAIN frames : ChatReturn(f)

SpecResume == ResumeInit /\ [][ResumeNext]_vars

(***************************************************************************)
(* SpecEvict: one WebSocket chat whose sessions are deleted through the    *)
(* session API between its turns.                                          *)
(***************************************************************************)
EvictInit ==
  /\ Holds(InitWorld)
  /\ budget = [NoBudget EXCEPT !.msgs = EvictMsgs, !.deletes = EvictDeletes,
                  !.calls = EvictCalls, !.plain = {"text"}]

\* DELETE /api/sessions/:id of a session of the index while no turn runs
ApiDeleteIdle(sessionId) ==
  /\ \A f \in DOMAIN frames : frames[f].pc = "returned"
  /\ ApiDelete(sessionId)

EvictNext ==
  \/ Receive(MainKey)
  \/ \E sessionId \in SessionIds : ReceiveResumed(MainKey, sessionId)
  \/ \E sessionId \in DOMAIN sessions : ApiDeleteIdle(sessionId)
  \/ \E f \in DOMAIN frames : SkillsLoaded(f)
  \/ \E f \in DOMAIN frames : ChatReturn(f)

SpecEvict == EvictInit /\ [][EvictNext]_vars

(***************************************************************************)
(* SpecLive: one WebSocket chat after its first turn, under fair           *)
(* scheduling: a pending model call or tool call resolves; a further       *)
(* message need not arrive. The model answers every call with a tool call. *)
(***************************************************************************)
\* the gateway after the chat's first message has been answered with a text
FirstTurnDone ==
  LET w1 == handleMessage(InitWorld, Msg(MainKey, "websocket", "m0", MainKey))
      w2 == processLoaded(w1, 1)
      answer == AnswerOf("text", 0)
  IN OnChat(Noted(w2, 1, answer), 1, answer)

LiveInit ==
  /\ Holds(FirstTurnDone)
  /\ budget = [NoBudget EXCEPT !.msgs = LiveMsgs, !.calls = LiveCalls,
                  !.plain = {"bash"}]

LiveNext ==
  \/ Receive(MainKey)
  \/ \E f \in DOMAIN frames : ChatReturn(f)
  \/ \E f \in DOMAIN frames : ToolReturn(f)

SpecLive ==
  /\ LiveInit /\ [][LiveNext]_vars
  /\ WF_vars(\E f \in DOMAIN frames : ChatReturn(f))
  /\ WF_vars(\E f \in DOMAIN frames : ToolReturn(f))

(***************************************************************************)
(* SpecSubagent and SpecAnnounce: the spawn tool called for the session of *)
(* the main runner, the subagent runs, the registry's sweeper and the      *)
(* announce queue, with time.  GatewayRef.triggerAgent is the interface    *)
(* the queue calls: a call is pending until TriggerReturn.  SpecSubagent   *)
(* has the spawn tool called with either cleanup, SpecAnnounce without     *)
(* one, and with more subagents.                                           *)
(***************************************************************************)
TickMs == DEBOUNCE_MS \div 2

\* the first interval tick of the sweeper at or after time t
SweepTickFrom(t) ==
  IF t <= sweepAt THEN sweepAt
  ELSE sweepAt + ((t - sweepAt + SweepIntervalMs - 1) \div SweepIntervalMs) * SweepIntervalMs

\* the next interval tick at which sweep does something: it removes a record
\* that is due, or finds no record and stops the sweeper
NextSweep ==
  LET archives == {subRuns[x].archiveAtMs :
                     x \in {y \in DOMAIN subRuns : subRuns[y].archiveAtMs # 0}}
  IN IF DOMAIN subRuns = {} THEN sweepAt
     ELSE IF archives = {} THEN 0
     ELSE SweepTickFrom(Min(archives))

\* the debounce timeouts that are scheduled
Timeouts == {queues[k].timerAt : k \in {q \in DOMAIN queues : queues[q].armed}}

\* when something scheduled will next act
Deadlines == Timeouts \cup (IF sweeperOn /\ NextSweep # 0 THEN {NextSweep} ELSE {})

\* no timeout or interval tick is due, and no loadSkills (a read of the
\* skills directory) is under way
NothingDue ==
  /\ \A d \in Timeouts \cup (IF sweeperOn THEN {sweepAt} ELSE {}) : d > now
  /\ \A f \in DOMAIN frames : frames[f].pc # "loadSkills"

SubagentInit ==
  /\ Holds(BoundRunner)
  /\ budget = [NoBudget EXCEPT !.spawns = SubSpawns, !.calls = SubCalls,
                  !.plain = {"text"}, !.throws = SubThrows, !.ticks = SubTicks,
                  !.cleanups = {"delete", "keep"}]

AnnounceInit ==
  /\ Holds(BoundRunner)
  /\ budget = [NoBudget EXCEPT !.spawns = AnnounceSpawns, !.calls = AnnounceCalls,
                  !.plain = {"text"}, !.throws = AnnounceThrows,
                  !.ticks = AnnounceTicks, !.cleanups = {""}]

\* subagentSpawnTool.execute(input, context) is called
SpawnCall ==
  /\ budget.spawns > 0
  /\ \E cleanup \in budget.cleanups :
       Commit(spawnBegin(World, 0, runners[1].toolContext,
                         "task" \o ToString(budget.spawns), Or(cleanup, "delete")))
  /\ budget' = [budget EXCEPT !.spawns = @ - 1]

\* the debounce timeout of a queue fires
TimerFire(k) ==
  /\ queues[k].armed
  /\ queues[k].timerAt <= now
  /\ Commit(drainQueue([World EXCEPT !.queues[k].armed = FALSE], k,
                       queues[k].timerChannel))
  /\ UNCHANGED budget

\* a triggerAgent call made by drainQueue resolves
TriggerReturn(i) ==
  /\ triggers[i].status = "pending"
  /\ Commit(drainFinally([World EXCEPT !.triggers[i].status = "done"],
                         triggers[i].sessionKey))
  /\ UNCHANGED budget

\* the sweeper's interval ticks
Sweep ==
  /\ sweeperOn
  /\ sweepAt <= now
  /\ Commit(sweep([World EXCEPT !.sweepAt = @ + SweepIntervalMs]))
  /\ UNCHANGED budget

\* time passes, but not beyond a timeout or an interval tick
Tick ==
  /\ budget.ticks > 0
  /\ NothingDue
  /\ \A d \in Timeouts \cup (IF sweeperOn THEN {sweepAt} ELSE {}) : d >= now + TickMs
  /\ Commit([World EXCEPT !.now = @ + TickMs])
  /\ budget' = [budget EXCEPT !.ticks = @ - 1]

\* time passes up to the next deadline; the interval ticks passed on the way
\* are sweeps that find a record and none that is due, and change nothing
Jump ==
  /\ NothingDue
  /\ Deadlines # {}
  /\ LET t == Min(Deadlines)
     IN Commit([World EXCEPT !.now = t,
                             !.sweepAt = IF sweeperOn THEN SweepTickFrom(t) ELSE @])
  /\ UNCHANGED budget

\* time passes up to the next debounce timeout, within the sweeper's first
\* interval
TimerJump ==
  /\ NothingDue
  /\ Timeouts # {}
  /\ sweeperOn => Min(Timeouts) < sweepAt
  /\ Commit([World EXCEPT !.now = Min(Timeouts)])
  /\ UNCHANGED budget

SubagentNext ==
  \/ SpawnCall
  \/ \E c \in DOMAIN frames : SpawnResume(c)
  \/ \E f \in DOMAIN frames : ChatReturn(f)
  \/ \E f \in DOMAIN frames : RunThrow(f)
  \/ \E k \in DOMAIN queues : TimerFire(k)
  \/ \E i \in DOMAIN triggers : TriggerReturn(i)
  \/ Sweep
  \/ Tick
  \/ Jump

SpecSubagent == SubagentInit /\ [][SubagentNext]_vars

\* the first minute after a spawn: the sweeper's interval has not ticked
AnnounceNext ==
  \/ SpawnCall
  \/ \E c \in DOMAIN frames : SpawnResume(c)
  \/ \E f \in DOMAIN frames : ChatReturn(f)
  \/ \E f \in DOMAIN frames : RunThrow(f)
  \/ \E k \in DOMAIN queues : TimerFire(k)
  \/ \E i \in DOMAIN triggers : TriggerReturn(i)
  \/ Tick
  \/ TimerJump

SpecAnnounce == AnnounceInit /\ [][AnnounceNext]_vars

(***************************************************************************)
(* Properties of the runner.                                               *)
(***************************************************************************)
\* the content of the last user entry of a conversation ("" if none)
LastUser(conversation) ==
  LET users == SelectSeq(conversation, LAMBDA m : m.role = "user")
  IN IF users = <<>> THEN "" ELSE LastOf(users).content

\* the tool calls whose result a conversation holds
ToolResults(conversation) ==
  {conversation[i].tool_call_id :
     i \in {j \in DOMAIN conversation : conversation[j].role = "tool"}}

\* C2: for every runner bound to a session, the persisted transcript of the
\* session is exactly the runner's in-memory conversation, in the same order
\* (so that bindSession on a new runner would load exactly that conversation).
C2_TranscriptIsConversation ==
  \A r \in DOMAIN runners :
    runners[r].sessionId # 0 =>
      transcripts[runners[r].sessionId] = runners[r].messages

\* C3 as stated: every message X injected while a tool call was executing is
\* the last user entry, with the interrupt prefix, of the conversation handed
\* to the run's next model call, which also holds the tool call's result.
C3_EverySteeredIsLast ==
  \A f \in DOMAIN frames :
    \A i \in DOMAIN frames[f].seen :
      /\ LastUser(frames[f].call) = InterruptPrefix \o frames[f].seen[i].text
      /\ frames[f].seenTools \subseteq ToolResults(frames[f].call)

\* C3, amended: a message X injected while a tool call was executing, when no
\* earlier injected message was still queued, is the last user entry, with
\* the interrupt prefix, of the conversation handed to the run's next model
\* call, and that conversation holds the result of the tool call.
C3_SteeredIsLastWhenQueueEmpty ==
  \A f \in DOMAIN frames :
    \A i \in DOMAIN frames[f].seen :
      frames[f].seen[i].wasEmpty =>
        /\ LastUser(frames[f].call) = InterruptPrefix \o frames[f].seen[i].text
        /\ frames[f].seenTools \subseteq ToolResults(frames[f].call)

C3_Witness ==
  \E f \in DOMAIN frames :
    /\ frames[f].pc = "chat"
    /\ frames[f].seen # <<>>
    /\ frames[f].seen[1].wasEmpty
    /\ frames[f].seenTools # {}

\* C4: every run makes at most maxIterations (10) model calls, whatever the
\* model answers and however many messages are injected, and a run that has
\* returned has returned "(done)" or the last non-empty text the model
\* produced, which it also passed to onComplete, exactly once.
C4_LoopBound ==
  \A f \in DOMAIN frames :
    /\ frames[f].calls <= maxIterations
    /\ frames[f].pc = "returned" =>
         /\ frames[f].result \in {"(done)", frames[f].lastText}
         /\ frames[f].completed = <<frames[f].result>>
    /\ frames[f].onlyTools /\ frames[f].calls = maxIterations
         /\ frames[f].pc \notin {"chat", "tool"}
         => frames[f].pc = "returned"

C4_Witness ==
  \E f \in DOMAIN frames :
    /\ frames[f].pc = "returned"
    /\ frames[f].calls = maxIterations
    /\ frames[f].onlyTools

\* the ids of the subagent_spawn calls in a conversation
SpawnCallIds(conversation) ==
  LET calls == UNION {Range(conversation[i].tool_calls) : i \in DOMAIN conversation}
  IN {tc.id : tc \in {t \in calls : t.name = "subagent_spawn"}}

\* C8: a run of a runner constructed with isSubagent = true is not offered
\* subagent_spawn, and a subagent_spawn call of its model is not executed:
\* no subagent run and no child session comes of it, and the result it gets
\* is the unknown-tool error.
C8_NoSubagentNesting ==
  \A f \in DOMAIN frames :
    runners[frames[f].runner].isSubagent =>
      /\ "subagent_spawn" \notin frames[f].schemas
      /\ \A c \in DOMAIN frames :
           frames[c].parent = f =>
             frames[c].kind # "subagent" /\ findBySessionKey(World, frames[c].key) = 0
      /\ \A i \in DOMAIN runners[frames[f].runner].messages :
           LET m == runners[frames[f].runner].messages[i]
           IN m.role = "tool"
                /\ m.tool_call_id \in SpawnCallIds(runners[frames[f].runner].messages)
                => m.content = "Error: Unknown tool subagent_spawn"

(***************************************************************************)
(* Properties of the subagent pipeline.                                    *)
(***************************************************************************)
Children == {c \in DOMAIN frames : frames[c].kind = "subagent"}

\* nothing is running or scheduled that could still call triggerAgent or
\* clean up: every run has ended, no debounce timeout is armed, no
\* triggerAgent call is pending
Quiescent ==
  /\ \A f \in DOMAIN frames : frames[f].pc \in {"returned", "threw"}
  /\ Timeouts = {}
  /\ \A i \in DOMAIN triggers : triggers[i].status # "pending"

\* the queue item of an ended subagent run, from what the run left behind
ItemOf(c) ==
  LET outcome == IF frames[c].pc = "returned" THEN [status |-> "ok", error |-> ""]
                 ELSE [status |-> "error", error |-> frames[c].error]
  IN [params |-> [AnnounceParams(World, c, outcome) EXCEPT !.endedAt = frames[c].endedAt],
      findings |-> getLastAssistantMessage(World, frames[c].key),
      enqueuedAt |-> frames[c].endedAt]

\* the run that ended n-th
EndedNth(n) == CHOOSE c \in Children : frames[c].endOrder = n

\* C5: once two subagent runs of one requester have completed and nothing is
\* pending any more, completions less than DEBOUNCE_MS (2000 ms) apart have
\* produced exactly one triggerAgent call, with the collected message of both
\* tasks, and completions more than DEBOUNCE_MS apart exactly two calls, each
\* with the single-trigger message of one task.
C5_DebounceWindow ==
  Quiescent /\ Cardinality(Children) = 2 =>
    LET a == EndedNth(1)
        b == EndedNth(2)
        gap == frames[b].endedAt - frames[a].endedAt
    IN /\ gap < DEBOUNCE_MS =>
            /\ Len(triggers) = 1
            /\ triggers[1].message = buildCollectedTriggerMessage(<<ItemOf(a), ItemOf(b)>>)
       /\ gap > DEBOUNCE_MS =>
            /\ Len(triggers) = 2
            /\ triggers[1].message = buildTriggerMessage(ItemOf(a).params, ItemOf(a).findings)
            /\ triggers[2].message = buildTriggerMessage(ItemOf(b).params, ItemOf(b).findings)

\* C6: a completion that is queued is going to be passed to triggerAgent
\* without a further completion: either a drain of its queue is in progress
\* or a debounce timeout of the queue is armed; in particular a drain that
\* finishes with items left leaves a timeout that will drain them.
C6_QueuedHasDrainAhead ==
  \A k \in DOMAIN queues :
    queues[k].items # <<>> => queues[k].draining \/ queues[k].armed

\* C7: in a collected trigger message the block of each task stands at the
\* position, and carries the number, of its completion among the tasks of
\* the message, whatever the order in which the subagents were spawned.
C7_BlocksInCompletionOrder ==
  \A i \in DOMAIN triggers :
    LET batch == Range(triggers[i].runIds)
        n == Cardinality(batch)
    IN n >= 2 =>
         /\ Len(triggers[i].message) = 5 + 3 * n + 2
         /\ \A c \in batch :
              LET j == Cardinality({d \in batch : frames[d].endOrder < frames[c].endOrder}) + 1
              IN SubSeq(triggers[i].message, 5 + 3 * (j - 1) + 1, 5 + 3 * j)
                   = CollectedBlock(j, ItemOf(c))

C7_Witness ==
  \E i \in DOMAIN triggers :
    \E c, d \in Range(triggers[i].runIds) :
      c < d /\ frames[c].endOrder > frames[d].endOrder

\* C9: the child session of a run with cleanup = delete is deleted only once
\* the triggerAgent call announcing the run has completed, and it is deleted:
\* once that call has completed and nothing is pending, the session is gone.
C9_DeleteAfterAnnounce ==
  \A c \in Children :
    frames[c].cleanup = "delete" =>
      LET announced == \E i \in DOMAIN triggers :
                          triggers[i].status = "done" /\ c \in Range(triggers[i].runIds)
          deleted == findBySessionKey(World, frames[c].key) = 0
      IN /\ deleted => announced
         /\ announced /\ Quiescent => deleted

\* archiveAtMs of a completed run is its completion time plus 60 minutes
ArchiveSetOnCompletion(c) ==
  c \in DOMAIN subRuns /\ subRuns[c].endedAt # 0 =>
    subRuns[c].archiveAtMs = subRuns[c].endedAt + ARCHIVE_AFTER_MINUTES * MinuteMs

\* the record and the child session are there while the run has not ended
\* and while now < archiveAtMs
KeptUntilArchive(c) ==
  /\ frames[c].endedAt = 0 =>
       c \in DOMAIN subRuns /\ findBySessionKey(World, frames[c].key) # 0
  /\ c \in DOMAIN subRuns /\ now < subRuns[c].archiveAtMs =>
       findBySessionKey(World, frames[c].key) # 0

\* no sweep at or after archiveAtMs has left the record
SweptWhenDue(c) ==
  c \in DOMAIN subRuns /\ sweeperOn => sweepAt - SweepIntervalMs < subRuns[c].archiveAtMs

\* C10: for a run with cleanup = keep, archiveAtMs is the completion time
\* plus 60 minutes, the record and the child session remain while the run
\* has not ended and while now < archiveAtMs, and the first sweep at or after
\* archiveAtMs removes the record.
C10_KeepUntilArchive ==
  \A c \in Children :
    frames[c].cleanup = "keep" =>
      ArchiveSetOnCompletion(c) /\ KeptUntilArchive(c) /\ SweptWhenDue(c)

C10_RunOutlivesRecord ==
  \A c \in Children : frames[c].cleanup = "keep" => KeptUntilArchive(c)

(***************************************************************************)
(* Properties of the gateway.                                              *)
(***************************************************************************)
\* the calls of run for a session key that are between entry and end
Running(sessionKey) ==
  {f \in DOMAIN frames : frames[f].key = sessionKey /\ frames[f].pc \in {"chat", "tool"}}

\* C1: for every sessionKey, at most one call of AgentRunner.run is under
\* way at any moment, whatever the interleaving of channel messages, steer
\* callbacks and triggerAgent calls for the key.
C1_OneRunPerSessionKey ==
  \A sessionKey \in Keys : Cardinality(Running(sessionKey)) <= 1

\* the sessions of the index that carry a session key
SessionsOf(sessionKey) ==
  {s \in DOMAIN sessions : sessions[s].sessionKey = sessionKey}

\* the calls of processMessage for a session key that have bound their runner
\* to the session getOrCreate returned
Bound(sessionKey) ==
  {f \in DOMAIN frames : /\ IsGatewayKind(frames[f].kind)
                         /\ frames[f].key = sessionKey
                         /\ frames[f].pc \notin {"new", "loadSkills"}}

\* C11: however many getOrCreate calls are made for a session key that had
\* no session, by calls of processMessage under way at the same time and in
\* whatever order they are resumed, the index holds exactly one session for
\* the key and every call got that session's sessionId.
C11_GetOrCreateOnce ==
  \A sessionKey \in Keys :
    /\ Cardinality(SessionsOf(sessionKey)) <= 1
    /\ \A f \in Bound(sessionKey) :
         /\ SessionsOf(sessionKey) # {}
         /\ runners[frames[f].runner].sessionId = findBySessionKey(World, sessionKey)

C11_Witness ==
  \E sessionKey \in Keys :
    \E f, g, h \in Bound(sessionKey) :
      /\ Cardinality({frames[f].runner, frames[g].runner, frames[h].runner}) = 3
      /\ Cardinality(SessionsOf(sessionKey)) = 1

(***************************************************************************)
(* Properties of the session index and of cron fires.                      *)
(***************************************************************************)
\* C12: the session index holds at most one session per sessionKey.
C12_OneSessionPerKey ==
  \A s, t \in DOMAIN sessions :
    sessions[s].sessionKey = sessions[t].sessionKey => s = t

Crons == {f \in DOMAIN frames : frames[f].kind = "cron"}

\* the runner of a cron fire is in nobody's hands but the fire's
OwnRunner(f) ==
  /\ \A k \in DOMAIN agents : agents[k] # frames[f].runner
  /\ \A g \in DOMAIN frames \ {f} : frames[g].runner # frames[f].runner

\* the session of a cron fire is a session of the job's key that no other
\* runner is bound to
OwnSession(f) ==
  LET sessionId == runners[frames[f].runner].sessionId
  IN /\ sessionId \in DOMAIN sessions
     /\ sessions[sessionId].sessionKey = frames[f].key
     /\ \A r \in DOMAIN runners \ {frames[f].runner} : runners[r].sessionId # sessionId

\* the transcript of the fire's session is the conversation of the fire and
\* nothing else: the system entry, the framed job message, and the entries
\* the run's model calls and tool calls added
OwnTranscript(f) ==
  LET r == frames[f].runner
      transcript == transcripts[runners[r].sessionId]
  IN /\ transcript = runners[r].messages
     /\ Len(transcript) >= 2
     /\ transcript[1] = Entry("system", SystemPrompt, <<>>, 0)
     /\ transcript[2] = Entry("user", CronPrefix \o frames[f].text, <<>>, 0)
     /\ \A i \in 3..Len(transcript) : transcript[i].role \in {"assistant", "tool"}
     /\ Cardinality({i \in DOMAIN transcript : transcript[i].role = "assistant"})
          <= frames[f].calls

C15_SystemEntryFirst ==
  \A sessionId \in DOMAIN sessions :
    LET transcript == transcripts[sessionId]
    IN transcript # <<>> =>
         /\ transcript[1].role = "system"
         /\ \A i \in 2..Len(transcript) : transcript[i].role # "system"

(***************************************************************************)
(* Properties of the transcripts.                                          *)
(***************************************************************************)
\* a run bound to the session is executing a tool call
ExecutingOn(sessionId) ==
  \E f \in DOMAIN frames :
    frames[f].pc = "tool" /\ runners[frames[f].runner].sessionId = sessionId

\* C14: in every session transcript an assistant entry that declares tool
\* calls is followed at once by the tool entries of the declared ids, in the
\* order declared and with no other entry between: by those of the calls
\* made so far while a run is executing them, by one for every declared id
\* otherwise, also when the run has ended by an exception.
C14_ToolEntriesFollowCalls ==
  \A sessionId \in DOMAIN sessions :
    LET transcript == transcripts[sessionId] IN
    \A i \in DOMAIN transcript :
      LET declared == transcript[i].tool_calls IN
      transcript[i].role = "assistant" /\ declared # <<>> =>
        /\ \A j \in DOMAIN declared :
             i + j <= Len(transcript) =>
               /\ transcript[i + j].role = "tool"
               /\ transcript[i + j].tool_call_id = declared[j].id
        /\ ~ExecutingOn(sessionId) => i + Len(declared) <= Len(transcript)

(***************************************************************************)
(* Properties of the ways a run ends.                                      *)
(***************************************************************************)
Ended == {"returned", "threw"}

\* C16: a step in which a call of run ends, by returning (a reply, the
\* fallback at the iteration bound, "(aborted)") or by throwing (a model
\* call or a tool call that rejected), leaves isActive() of its runner false.
C16_EndClearsIsRunning ==
  [][\A f \in DOMAIN frames :
       frames[f].pc \notin Ended /\ frames'[f].pc \in Ended
         => ~runners'[frames[f].runner].isRunning]_vars

C16_Witness ==
  \E f, g \in DOMAIN frames :
    /\ frames[f].pc = "threw"
    /\ frames[g].pc = "returned"
    /\ frames[g].result = "(aborted)"
    /\ ~runners[frames[g].runner].isRunning

\* C17: when the model call of a run is cancelled by abort(), the run
\* returns "(aborted)" in that step, which appends nothing to any transcript
\* or to the runner's conversation, does not call onComplete, and has the
\* gateway send nothing for the turn, neither a reply nor an "Error:" text.
C17_AbortEndsQuietly ==
  [][\A f \in DOMAIN frames :
       frames[f].pc = "chat" /\ SignalAborted(World, f) /\ frames'[f].pc # "chat"
         => /\ frames'[f].pc = "returned"
            /\ frames'[f].result = "(aborted)"
            /\ transcripts' = transcripts
            /\ runners'[frames[f].runner].messages = runners[frames[f].runner].messages
            /\ frames'[f].completed = <<>>
            /\ frames'[f].sent = <<>>
            /\ outbox' = outbox]_vars

C17_Witness ==
  \E f \in DOMAIN frames :
    /\ IsGatewayKind(frames[f].kind)
    /\ frames[f].pc = "returned"
    /\ frames[f].result = "(aborted)"
    /\ frames[f].aborted
    /\ frames[f].calls = 2
    /\ outbox = <<>>

(***************************************************************************)
(* Properties of the gateway's final reply.                                *)
(***************************************************************************)
Turns == {f \in DOMAIN frames : IsGatewayKind(frames[f].kind)}

Sentinels == {"NO_REPLY", "(done)", "(aborted)"}

\* the transcript of the session a turn's runner is bound to
TranscriptOf(f) == transcripts[runners[frames[f].runner].sessionId]

\* C18: for a turn whose final text is exactly NO_REPLY the gateway calls
\* channels.send not at all, while the transcript holds the assistant entry
\* with the content NO_REPLY; for a turn that ends with the fallback "(done)"
\* the gateway calls channels.send not at all either.
C18_SentinelsNotSent ==
  \A f \in Turns :
    frames[f].pc = "returned" =>
      /\ frames[f].result = "NO_REPLY" =>
           /\ frames[f].sent = <<>>
           /\ \E i \in DOMAIN TranscriptOf(f) :
                TranscriptOf(f)[i] = Entry("assistant", "NO_REPLY", <<>>, 0)
      /\ frames[f].result = "(done)" => frames[f].sent = <<>>

C18_Witness ==
  \E f, g \in Turns :
    /\ frames[f].pc = "returned" /\ frames[f].result = "NO_REPLY"
    /\ frames[g].pc = "returned" /\ frames[g].result = "(done)"
    /\ outbox = <<>>

\* the channels.send calls the gateway has made, by turn
SendsOfTurns ==
  {<<f, i>> : f \in Turns, i \in 1..2} \cap
    {p \in (DOMAIN frames) \X (1..2) : p[2] <= Len(frames[p[1]].sent)}

\* C19: of every turn the gateway makes at most one final channels.send call:
\* none before run has ended, exactly one with the final text when run has
\* returned a reply that is no sentinel (also with messages steered into the
\* run), and exactly one with "Error: " and the error's message when run has
\* thrown; channels.send is called for nothing else.
C19_OneFinalSend ==
  /\ \A f \in Turns :
       /\ Len(frames[f].sent) <= 1
       /\ frames[f].pc \notin Ended => frames[f].sent = <<>>
       /\ frames[f].pc = "returned" /\ frames[f].result \notin Sentinels
            => frames[f].sent = <<frames[f].result>>
       /\ frames[f].pc = "threw" => frames[f].sent = <<"Error: " \o frames[f].error>>
  /\ Len(outbox) = Cardinality(SendsOfTurns)

C19_Witness ==
  \E f, g \in Turns :
    /\ frames[f].pc = "returned"
    /\ frames[f].sent = <<frames[f].result>>
    /\ \E i \in DOMAIN runners[frames[f].runner].messages :
         runners[frames[f].runner].messages[i].role = "user"
           /\ runners[frames[f].runner].messages[i].content
                = InterruptPrefix \o "m" \o ToString(TurnMsgs - 1)
    /\ frames[g].pc = "threw"
    /\ Len(outbox) = 2

(***************************************************************************)
(* Properties of the announce drain.                                       *)
(***************************************************************************)
\* the triggerAgent calls of a requester's drains that have not returned
PendingDrains(sessionKey) ==
  {i \in DOMAIN triggers :
     triggers[i].sessionKey = sessionKey /\ triggers[i].status = "pending"}

\* C20: for every requesterSessionKey at most one triggerAgent call of a
\* drain is pending at any time, also when a debounce timeout of the key
\* fires while a call is pending, and the queue is marked as draining for as
\* long as the call is pending.
C20_OneDrainPerKey ==
  \A sessionKey \in {triggers[i].sessionKey : i \in DOMAIN triggers} :
    /\ Cardinality(PendingDrains(sessionKey)) <= 1
    /\ PendingDrains(sessionKey) # {} =>
         sessionKey \in DOMAIN queues /\ queues[sessionKey].draining

\* a timeout of the key has fired while the call was pending
C20_Witness ==
  \E sessionKey \in DOMAIN queues :
    /\ PendingDrains(sessionKey) # {}
    /\ queues[sessionKey].items # <<>>
    /\ ~queues[sessionKey].armed

(***************************************************************************)
(* Properties of a failed subagent run.                                    *)
(***************************************************************************)
\* the text s holds the text t
Contains(s, t) ==
  \E i \in 1..(Len(s) - Len(t) + 1) : SubSeq(s, i, i + Len(t) - 1) = t

Failed == {c \in Children : frames[c].pc = "threw"}

\* C26: when a subagent's run has thrown, every triggerAgent call that
\* announces the run carries the run's error message in its text, whether
\* the run is announced alone or collected with other completions.
C26_ErrorInTrigger ==
  \A i \in DOMAIN triggers :
    \A c \in Range(triggers[i].runIds) \cap Failed :
      \E l \in DOMAIN triggers[i].message :
        Contains(triggers[i].message[l], frames[c].error)

(***************************************************************************)
(* Properties of the cron service.                                         *)
(***************************************************************************)
\* the step calls the trigger handler for the i-th invocation of a callback
HandlerStarts(i) == cron.fires[i].pc # "handler" /\ cron'.fires[i].pc = "handler"

Handling(i) ==
  /\ cron.fires[i].pc = "handler"
  /\ frames[cron.fires[i].frame].pc \notin {"returned", "threw"}

\* C22: no two handlers of fires of one job are running at a time.
C22_NoOverlap ==
  \A i, j \in DOMAIN cron.fires :
    i < j /\ cron.fires[i].id = cron.fires[j].id => ~(Handling(i) /\ Handling(j))

\* the latest operation completed for a job; "" when there is none
LastOp(id) ==
  LET done == {k \in DOMAIN cron.log : cron.log[k].id = id}
  IN IF done = {} THEN "" ELSE cron.log[CHOOSE k \in done : \A l \in done : l <= k].name

\* the step belongs to an enable or a disable
TogglesJob ==
  /\ cron'.op # cron.op
  /\ cron.op.name \in {"enable", "disable"} \/ cron'.op.name \in {"enable", "disable"}

\* C23: every scheduler belongs to a job that is stored and enabled, so no
\* scheduler is left for a removed job; a scheduler ticks only for a job
\* whose latest completed operation is neither a disable nor a remove; and
\* the steps of enable and disable keep the store's jobs and change no
\* field of a job but enabled.
C23_TogglePreservesJob ==
  [][/\ \A id \in cron'.runners :
          /\ \E i \in DOMAIN cron'.jobs : cron'.jobs[i] = id
          /\ cron'.heap[id].enabled
     /\ Len(cron'.fires) > Len(cron.fires) =>
          LastOp(cron'.fires[Len(cron'.fires)].id) \notin {"disable", "remove"}
     /\ TogglesJob =>
          /\ cron'.jobs = cron.jobs
          /\ \A id \in DOMAIN cron.heap :
               [cron'.heap[id] EXCEPT !.enabled = cron.heap[id].enabled] = cron.heap[id]]_vars

C23_Witness ==
  /\ Len(cron.log) = 2
  /\ cron.log[1] = [name |-> "disable", id |-> 1, value |-> TRUE]
  /\ cron.log[2] = [name |-> "enable", id |-> 1, value |-> TRUE]
  /\ 1 \in cron.runners
  /\ cron.heap[1].enabled
  /\ cron.fires # <<>>

\* C24: add with an invalid cron expression stores nothing: every stored
\* job has an expression the scheduler accepts.
C24_InvalidAddRejected ==
  \A i \in DOMAIN cron.jobs : ValidSchedule(cron.heap[cron.jobs[i]].schedule)


\* the test of a tier, as section 4.2 of the specification words it
TierTest(b, input, tier) ==
  CASE tier = "peer" -> input.peer # NoPeer /\ b.match.peer = input.peer
    [] tier = "guild" -> input.guildId # Undefined /\ b.match.guildId = input.guildId
    [] tier = "team" -> input.teamId # Undefined /\ b.match.teamId = input.teamId
    [] tier = "account" ->
         input.accountId # Undefined /\ b.match.accountId = input.accountId /\ Unconstrained(b)
    [] tier = "channel" -> b.match.accountId \in {"*", Undefined} /\ Unconstrained(b)

Tiers == <<"peer", "guild", "team", "account", "channel">>

\* the stored bindings on the input's channel that pass the test of tier t
Candidates(input, t) ==
  {i \in DOMAIN bindings :
     bindings[i].match.channel = input.channel /\ TierTest(bindings[i], input, Tiers[t])}

\* the candidate with the lowest priority number, the earliest among equals
Selected(input, t) ==
  CHOOSE i \in Candidates(input, t) :
    \A j \in Candidates(input, t) :
      \/ priorityOf(bindings[i]) < priorityOf(bindings[j])
      \/ priorityOf(bindings[i]) = priorityOf(bindings[j]) /\ i <= j

ExpectedRoute(input) ==
  LET hit == {t \in DOMAIN Tiers : Candidates(input, t) # {}}
  IN IF hit = {} THEN RouteResult("default", "default", 0)
     ELSE LET b == bindings[Selected(input, Min(hit))]
          IN RouteResult(b.agentId, Tiers[Min(hit)], b.id)

\* C25: resolveRoute returns the agent of the binding selected by the strict
\* tier order peer, guild, team, account, channel among the bindings on the
\* input's channel, within a tier the binding with the lowest priority number
\* and among equal priorities the one inserted first; when no binding matches
\* it returns the default agent with matchedBy = default; the result is a
\* function of the input and the stored bindings.
C25_RouteByTierAndPriority ==
  [][budget'.resolves < budget.resolves =>
       route'.result = ExpectedRoute(route'.input)]_vars

\* a guild binding of priority 200 was inserted before one without a priority,
\* and an input that carries the guild was routed to the later one
C25_Witness ==
  /\ Len(bindings) = 2
  /\ bindings[1].match.guildId = "g1" /\ bindings[1].priority = 200
  /\ bindings[2].match.guildId = "g1" /\ bindings[2].priority = NoPriority
  /\ route.input.guildId = "g1" /\ route.input.peer = NoPeer
  /\ route.result = RouteResult("work", "guild", 2)


\* C27: after any sequence of createAgent, updateAgent, deleteAgent and
\* setDefaultAgent calls the default agent exists in the store, and
\* setDefaultAgent on an id that names no stored agent returns false and
\* changes nothing.
C27_DefaultExists ==
  /\ agentStore.defaultAgentId \in DOMAIN agentStore.agents
  /\ getDefaultAgent(World) = agentStore.defaultAgentId


\* the index a delta is read under
IndexOf(tc) == IF tc.index = NoIndex THEN 0 ELSE tc.index

\* the deltas read for index idx, in arrival order
DeltasOf(idx) ==
  LET ForIndex(tc) == IndexOf(tc) = idx
  IN SelectSeq(stream.deltas, ForIndex)

\* the concatenation of the argument fragments of a sequence of deltas
RECURSIVE Concatenation(_)
Concatenation(ds) ==
  IF ds = <<>> THEN "" ELSE ds[1].arguments \o Concatenation(Tail(ds))

\* the last non-empty value of a field among a sequence of deltas
LastReceived(ds, Field(_)) ==
  LET given == {i \in DOMAIN ds : Field(ds[i]) # ""}
  IN IF given = {} THEN "" ELSE Field(ds[CHOOSE i \in given : \A j \in given : j <= i])

IdField(tc) == tc.id

NameField(tc) == tc.name

\* the indices in the order of their first delta
RECURSIVE ArrivalOrder(_)
ArrivalOrder(ds) ==
  IF ds = <<>> THEN <<>>
  ELSE LET before == ArrivalOrder(SubSeq(ds, 1, Len(ds) - 1))
           idx == IndexOf(ds[Len(ds)])
       IN IF idx \in Range(before) THEN before ELSE Append(before, idx)

\* the tool calls of the indices that received a name and whose concatenated
\* arguments parse; an empty concatenation counts as {} when emptyIsObject
RECURSIVE ExpectedToolCalls(_, _)
ExpectedToolCalls(order, emptyIsObject) ==
  IF order = <<>> THEN <<>>
  ELSE LET ds == DeltasOf(order[1])
           text == Concatenation(ds)
           rest == ExpectedToolCalls(Tail(order), emptyIsObject)
       IN IF LastReceived(ds, NameField) = "" THEN rest
          ELSE IF text = "" /\ emptyIsObject
               THEN <<[id |-> LastReceived(ds, IdField),
                       name |-> LastReceived(ds, NameField), input |-> {}]>> \o rest
               ELSE IF ValidJSON(text)
                    THEN <<[id |-> LastReceived(ds, IdField),
                            name |-> LastReceived(ds, NameField),
                            input |-> JSONparse(text)]>> \o rest
                    ELSE rest

Notified == [i \in DOMAIN stream.onToolCall |->
               [name |-> stream.toolCalls[i].name, input |-> stream.toolCalls[i].input]]

AnEnd == {"returned", "threw"}

\* the step is a call of triggerAgent
TriggerCalled == Len(replies') = Len(replies) + 1

Injections(rs) == [r \in DOMAIN rs |-> rs[r].injectedMessages]

Activity(rs) == [r \in DOMAIN rs |-> rs[r].isRunning]

\* what a call of triggerAgent does when the runner cached under the session
\* key is active, and what it does otherwise
TriggerSteersCached ==
  LET reply == replies'[Len(replies')]
      agent == agentsGet(World, reply.sessionKey)
  IN IF agent # 0 /\ runners[agent].isRunning
     THEN /\ reply.value = "steered"
          /\ frames' = frames
          /\ Activity(runners') = Activity(runners)
          /\ Injections(runners') =
               [Injections(runners) EXCEPT ![agent] = Append(@, reply.message)]
     ELSE /\ reply.value = "pending"
          /\ Len(frames') = Len(frames) + 1
          /\ reply.frame = Len(frames')
          /\ frames'[reply.frame].kind = "trigger"
          /\ frames'[reply.frame].source = "subagent-announce"
          /\ frames'[reply.frame].text = reply.message
          /\ \A r \in DOMAIN runners' : reply.message \notin Range(runners'[r].injectedMessages)

\* a call that went through processMessage has returned 'invoked' exactly
\* when its turn has ended, by a return or by a throw of run
InvokedWhenEnded(rs, fs) ==
  \A i \in DOMAIN rs :
    /\ rs[i].value \in {"steered", "pending", "invoked"}
    /\ rs[i].value = "steered" <=> rs[i].frame = 0
    /\ rs[i].value = "invoked" <=> (rs[i].frame # 0 /\ fs[rs[i].frame].pc \in AnEnd)

C30_ActiveNeverProcessed ==
  [][\A f \in DOMAIN frames' \ DOMAIN frames :
       frames'[f].kind = "message" =>
         ~(frames'[f].runner \in DOMAIN runners /\ runners[frames'[f].runner].isRunning)]_vars


\* the step is the return of a main-loop model call of frame f with pure
\* text: the conversation grows by an assistant entry without tool calls
PureTextAnswered(f) ==
  LET r == frames[f].runner
      n == Len(runners[r].messages)
  IN /\ frames[f].pc = "chat" /\ frames[f].phase = "main"
     /\ Len(runners'[r].messages) > n
     /\ runners'[r].messages[n + 1].role = "assistant"
     /\ runners'[r].messages[n + 1].tool_calls = <<>>

\* the run goes on to a model call whose conversation ends with the oldest
\* pending message, which leaves the queue
OldestPresented(f) ==
  LET r == frames[f].runner
      q == runners[r].injectedMessages
  IN /\ frames'[f].pc = "chat"
     /\ frames'[f].iterations = frames[f].iterations + 1
     /\ frames'[f].call = runners'[r].messages
     /\ LastOf(frames'[f].call) = InterruptEntry(Head(q))
     /\ runners'[r].injectedMessages = Tail(q)

\* C31 (as the code has it): when the model returns pure text while injected
\* messages are pending and the run has made fewer than maxIterations
\* iterations, the run does not end: the next iteration's model call gets
\* the oldest pending message as a user entry with the [INTERRUPT] prefix, so
\* the pending messages reach later model calls one per iteration in the
\* order of their injection; at the last iteration the run ends and leaves
\* them queued.
C31_PendingContinueBelowBound ==
  [][\A f \in DOMAIN frames :
       PureTextAnswered(f) /\ runners[frames[f].runner].injectedMessages # <<>> =>
         IF frames[f].iterations < maxIterations THEN OldestPresented(f)
         ELSE /\ frames'[f].pc = "returned"
              /\ runners'[frames[f].runner].injectedMessages =
                   runners[frames[f].runner].injectedMessages]_vars

\* C31 (as stated): pure text with injected messages pending never ends the
\* run.
C31_PendingAlwaysContinue ==
  [][\A f \in DOMAIN frames :
       PureTextAnswered(f) /\ runners[frames[f].runner].injectedMessages # <<>> =>
         OldestPresented(f)]_vars

\* two messages were pending when the model answered with text: the model
\* call that followed got the first, the second is still queued
C31_Witness ==
  \E f \in DOMAIN frames :
    /\ frames[f].pc = "chat"
    /\ Len(frames[f].call) > 1
    /\ LastOf(frames[f].call) = InterruptEntry("x2")
    /\ frames[f].call[Len(frames[f].call) - 1].role = "assistant"
    /\ frames[f].call[Len(frames[f].call) - 1].tool_calls = <<>>
    /\ frames[f].call[Len(frames[f].call) - 1].content # ""
    /\ runners[frames[f].runner].injectedMessages = <<"x1">>


\* the assistant entries with the text of the send tools
SentEntries(entries) ==
  {i \in DOMAIN entries : entries[i].role = "assistant" /\ entries[i].content = SentText
                           /\ entries[i].tool_calls = <<>>}

\* C32: a transcript entry that a tool appended to the runner's own session
\* during an iteration of a run is part of the conversation passed to the
\* model call of the next iteration of that run.
C32_ToolEntriesReachNextCall ==
  \A f \in DOMAIN frames :
    frames[f].pc = "chat" /\ runners[frames[f].runner].sessionId # 0 =>
      (SentEntries(TranscriptOf(f)) # {} => SentEntries(frames[f].call) # {})

\* the step is the start of a session_send call of frame f
SessionSendStarts(f) ==
  /\ frames'[f].pc = "tool"
  /\ Head(frames'[f].tools).name = "session_send"
  /\ frames[f].pc # "tool" \/ frames[f].tools # frames'[f].tools

\* C40: a successful session_send call appends exactly one assistant entry
\* with the given text to the target session's transcript and pushes the
\* text to the session's channel exactly once; no other transcript changes.
C40_SessionSendAppendsOnce ==
  [][\A f \in DOMAIN frames :
       SessionSendStarts(f) /\ getSession(World, runners[frames[f].runner].sessionId) =>
         LET target == runners[frames[f].runner].sessionId
         IN /\ Cardinality(SentEntries(transcripts'[target])) =
                 Cardinality(SentEntries(transcripts[target])) + 1
            /\ Len(outbox') = Len(outbox) + 1
            /\ \A s \in DOMAIN transcripts \ {target} : transcripts'[s] = transcripts[s]]_vars


\* the step is the return of a main-loop model call of frame f with neither
\* text nor tool calls: no assistant entry joins the conversation
EmptyAnswered(f) ==
  LET r == frames[f].runner
      n == Len(runners[r].messages)
  IN /\ frames[f].pc = "chat" /\ frames[f].phase = "main"
     /\ frames'[f] # frames[f]
     /\ Len(runners'[r].messages) = n \/ runners'[r].messages[n + 1].role = "user"

\* the run has returned what it falls back to after frame f's loop
ReturnedFallback(f, fallback) ==
  /\ frames'[f].pc = "returned"
  /\ frames'[f].result = fallback
  /\ frames'[f].completed = <<fallback>>

\* what an empty answer leads to, given what the run returns when it ends
\* without a text of this answer
EmptyHandled(f, fallback) ==
  LET r == frames[f].runner
      more == frames[f].iterations < maxIterations
  IN IF frames[f].emptyRetries < MaxEmptyRetries
     THEN /\ frames'[f].emptyRetries = frames[f].emptyRetries + 1
          /\ IF more THEN frames'[f].pc = "chat" /\ frames'[f].calls = frames[f].calls + 1
             ELSE ReturnedFallback(f, fallback)
     ELSE /\ frames'[f].emptyRetries = frames[f].emptyRetries
          /\ IF more /\ runners[r].injectedMessages # <<>> THEN OldestPresented(f)
             ELSE ReturnedFallback(f, fallback)

\* C33 (as the code has it): within one run an empty model response causes
\* a retry at most 2 times; a further empty response ends the loop unless
\* injected messages are pending, in which case the loop continues; a run
\* that ends so returns the last non-empty text an earlier response of the
\* run carried, and '(done)' when there was none.
C33_EmptyRetriedTwice ==
  [][\A f \in DOMAIN frames :
       /\ f \in DOMAIN frames' => frames'[f].emptyRetries <= MaxEmptyRetries
       /\ EmptyAnswered(f) =>
            EmptyHandled(f, IF Trim(frames[f].finalResponse) = "" THEN "(done)"
                            ELSE frames[f].finalResponse)]_vars

\* C33 (as stated): the run that ends so returns '(done)'.
C33_EmptyEndsWithDone ==
  [][\A f \in DOMAIN frames : EmptyAnswered(f) => EmptyHandled(f, "(done)")]_vars

\* three empty answers in a row: two retries, then the run returned '(done)'
C33_Witness ==
  \E f \in DOMAIN frames :
    /\ frames[f].pc = "returned"
    /\ frames[f].calls = 3
    /\ frames[f].emptyRetries = MaxEmptyRetries
    /\ frames[f].lastText = ""
    /\ frames[f].result = "(done)"


\* frame f handles a message for a key whose cached runner was bound to a
\* session that is no longer in the index
HandlesEvictedKey(f) ==
  \E f0 \in DOMAIN frames :
    LET r0 == frames[f0].runner
    IN /\ f0 < f /\ r0 # frames[f].runner
       /\ RunnerKeyOf(frames[f0].msgSessionId, frames[f0].key)
            = RunnerKeyOf(frames[f].msgSessionId, frames[f].key)
       /\ runners[r0].sessionId # 0
       /\ ~getSession(World, runners[r0].sessionId)

\* C34 (violated): when the session bound to a cached runner has been
\* deleted, the new runner that handles the next message for the key is,
\* once its skills are loaded and its run starts, bound to a session that is
\* in the index.
C34_EvictedRunnerRebound ==
  [][\A f \in DOMAIN frames :
       (/\ frames[f].kind = "message"
        /\ frames[f].pc = "loadSkills" /\ frames'[f].pc # "loadSkills"
        /\ HandlesEvictedKey(f))
       => LET r == frames[f].runner
          IN /\ runners'[r].sessionId # 0
             /\ runners'[r].sessionId \in DOMAIN sessions']_vars


\* what chat returns and what the callbacks have received
Parsed(st) ==
  [content |-> st.content, toolCalls |-> st.toolCalls,
   onChunk |-> st.onChunk, onToolCall |-> st.onToolCall]

\* the response body delivered by a single read
ParsedWhole(body) == Parsed(convertBuffers(parseChunk(NewStream, body), 1))

\* C35 (violated): the content and the tool calls chat returns, and the
\* sequences of onChunk and onToolCall callbacks, are those of the response
\* body delivered in one read, however the transport splits the body.
C35_SplitIndependent ==
  (stream.done /\ stream.body # "") => Parsed(stream) = ParsedWhole(stream.body)


\* the gateway has accepted a message with the text x
Accepted(x) ==
  \/ \E f \in DOMAIN frames : frames[f].kind = "message" /\ frames[f].text = x
  \/ \E r \in DOMAIN runners : x \in Range(runners[r].injectedMessages)

\* a model call has been made with x as the input of its run or as an
\* [INTERRUPT] entry
PresentedToCall(x) ==
  \E f \in DOMAIN frames :
    \E i \in DOMAIN frames[f].call :
      /\ frames[f].call[i].role = "user"
      /\ frames[f].call[i].content \in {x, InterruptEntry(x).content}

\* C36 (violated): every message the gateway accepts for a session is
\* eventually presented to a model call, as the input of a run or as an
\* [INTERRUPT] entry of the run it was injected into, without a further
\* message arriving, as long as the model answers calls.
C36_AcceptedEventuallyPresented ==
  \A x \in {"m1", "m2"} : Accepted(x) ~> (PresentedToCall(x) \/ budget.calls = 0)


\* C37 (violated): isActive() of a runner is true at every moment at which
\* a run of that runner is in its loop, waiting for a model call or a tool.
C37_ActiveWhileRunning ==
  \A f \in DOMAIN frames :
    frames[f].pc \in {"chat", "tool"} => isActive(World, frames[f].runner)


\* the completions still in a queue, by the run they report
QueuedRunIds ==
  UNION {{queues[k].items[n].params.childRunId : n \in DOMAIN queues[k].items} :
           k \in DOMAIN queues}

\* C38: each enqueued subagent completion is included in at most one message
\* passed to triggerAgent: it is off the queue from the moment of the call
\* on, whether the call is pending or has ended (returned 'invoked',
\* 'steered' or 'failed', or thrown), and no second call carries it.
C38_CompletionSentOnce ==
  /\ \A i, j \in DOMAIN triggers :
       \A a \in DOMAIN triggers[i].runIds, b \in DOMAIN triggers[j].runIds :
         triggers[i].runIds[a] = triggers[j].runIds[b] => i = j /\ a = b
  /\ \A i \in DOMAIN triggers : Range(triggers[i].runIds) \cap QueuedRunIds = {}

\* two completions of one requester went out in two calls: the first call,
\* with one completion, has ended and another call is pending
C38_Witness ==
  /\ Len(triggers) >= 2
  /\ triggers[1].status = "done"
  /\ Len(triggers[1].runIds) = 1
  /\ \E i \in DOMAIN triggers : triggers[i].status = "pending"


\* C39 (violated): once all calls of add, remove, enable and disable have
\* returned, also calls on one job whose awaits interleave, a job has a
\* scheduler if it is stored and enabled and none otherwise.
C39_SchedulerIffStoredEnabled ==
  (cron.op = NoOp /\ cron.ops = <<>>) =>
    \A id \in DOMAIN cron.heap :
      id \in cron.runners <=> (storeHas(World, id) /\ cron.heap[id].enabled)

====
